---------------------------- MODULE Spec2Model ----------------------------
(***************************************************************************)
(* GlobalActionManager of Tomahawk: the tomahawk:// link grammar, the      *)
(* command router, the "resolve, then act" coordination around             *)
(* m_waitingToPlay / m_waitingToBookmark / m_toShow, and the outbound      *)
(* link codec (openLink, copyToClipboard, copyPlaylistToClipboard).        *)
(*                                                                         *)
(* Text is modelled as TLA+ strings (sequences of characters): the Qt      *)
(* string and URL functions the code calls are operators computed          *)
(* character by character.                                                 *)
(***************************************************************************)
EXTENDS Integers, Sequences, FiniteSets, TLC

(***************************************************************************)
(* Bounds of the model.                                                    *)
(***************************************************************************)
\* number of track queries that may be built in one behaviour
MaxQueries == 2
\* number of playlists / loaders / parsers that may be created
MaxObjects == 1
\* the playlists a run creates
MaxPlaylists == 2
\* how many routes (parsers started, track lists emitted) dropped data may take
MaxRoutes == 3

Null == 0

(***************************************************************************)
(* QString functions.                                                      *)
(***************************************************************************)
CharAt(s, i) == SubSeq(s, i, i)

\* QString::startsWith
StartsWith(s, p) == Len(p) <= Len(s) /\ SubSeq(s, 1, Len(p)) = p

\* QString::endsWith
EndsWith(s, p) == Len(p) <= Len(s) /\ SubSeq(s, Len(s) - Len(p) + 1, Len(s)) = p

\* QString::indexOf, 1-based; 0 when sub does not occur
IndexOf(s, sub) ==
    LET hits == { i \in 1..(Len(s) - Len(sub) + 1) : SubSeq(s, i, i + Len(sub) - 1) = sub }
    IN  IF hits = {} THEN 0 ELSE CHOOSE i \in hits : \A j \in hits : i <= j

\* QString::contains
Contains(s, sub) == IndexOf(s, sub) > 0

\* QString::mid( pos ): the text from the 0-based position pos on
Mid(s, pos) == IF pos >= Len(s) THEN "" ELSE SubSeq(s, pos + 1, Len(s))

\* QString::replace( before, after ): every occurrence, left to right
RECURSIVE Replace(_, _, _)
Replace(s, before, after) ==
    LET i == IndexOf(s, before)
    IN  IF i = 0 THEN s
        ELSE SubSeq(s, 1, i - 1) \o after
             \o Replace(Mid(s, i - 1 + Len(before)), before, after)

\* QString::split( sep ) for a one-character separator; empty parts are kept
RECURSIVE Split(_, _)
Split(s, sep) ==
    LET i == IndexOf(s, sep)
    IN  IF i = 0 THEN << s >>
        ELSE << SubSeq(s, 1, i - 1) >> \o Split(Mid(s, i), sep)

\* QStringList::join
RECURSIVE Join(_, _)
Join(l, sep) ==
    IF l = << >> THEN ""
    ELSE IF Len(l) = 1 THEN l[1]
    ELSE l[1] \o sep \o Join(Tail(l), sep)

\* QList::mid( pos )
ListMid(l, pos) == IF pos >= Len(l) THEN << >> ELSE SubSeq(l, pos + 1, Len(l))

UpperCase == { "A", "D", "V", "T", "L", "E", "F", "H", "S", "K", "M", "B" }

LowerOf(c) ==
    CASE c = "A" -> "a" [] c = "D" -> "d" [] c = "V" -> "v" [] c = "T" -> "t"
      [] c = "L" -> "l" [] c = "E" -> "e" [] c = "F" -> "f" [] c = "H" -> "h"
      [] c = "S" -> "s" [] c = "K" -> "k" [] c = "M" -> "m" [] c = "B" -> "b"
      [] OTHER -> c

\* QString::toLower
RECURSIVE ToLower(_)
ToLower(s) == IF s = "" THEN "" ELSE LowerOf(CharAt(s, 1)) \o ToLower(Mid(s, 1))

(***************************************************************************)
(* QUrl: percent encoding, query items, path.                              *)
(***************************************************************************)
\* the characters with a percent code that the model's texts use
PctCode(c) ==
    CASE c = " " -> "%20" [] c = "#" -> "%23" [] c = "%" -> "%25"
      [] c = "&" -> "%26" [] c = "'" -> "%27" [] c = "+" -> "%2B"
      [] c = "=" -> "%3D" [] OTHER -> c

PctChars == { " ", "#", "%", "&", "'", "+", "=" }

\* QByteArray::fromPercentEncoding
RECURSIVE FromPercentEncoding(_)
FromPercentEncoding(s) ==
    IF s = "" THEN ""
    ELSE LET hits == { c \in PctChars : StartsWith(s, PctCode(c)) }
         IN  IF hits # {} THEN (CHOOSE c \in hits : TRUE) \o FromPercentEncoding(Mid(s, 3))
             ELSE CharAt(s, 1) \o FromPercentEncoding(Mid(s, 1))

\* QUrl::addQueryItem encodes keys and values except the characters
\* "!$&'()*+,;=:@/?" and the unreserved ones, and always encodes the
\* delimiters '=' and '&'
QueryExcludeChars == { "'", "+", "/", "?", ":", "!", "$", "(", ")", "*", ",", ";", "@" }

RECURSIVE ToPercentEncoding(_)
ToPercentEncoding(s) ==
    IF s = "" THEN ""
    ELSE LET c == CharAt(s, 1)
         IN  (IF c \in QueryExcludeChars THEN c ELSE PctCode(c))
             \o ToPercentEncoding(Mid(s, 1))

\* QUrl::queryItems: the pairs in the order of the text, keys and values decoded
RECURSIVE QueryItemsOf(_)
QueryItemsOf(query) ==
    IF query = "" THEN << >>
    ELSE LET a    == IndexOf(query, "&")
             item == IF a = 0 THEN query ELSE SubSeq(query, 1, a - 1)
             e    == IndexOf(item, "=")
             k    == IF e = 0 THEN item ELSE SubSeq(item, 1, e - 1)
             v    == IF e = 0 THEN "" ELSE Mid(item, e)
         IN  << << FromPercentEncoding(k), FromPercentEncoding(v) >> >>
             \o (IF a = 0 THEN << >> ELSE QueryItemsOf(Mid(query, a)))

\* QUrl::fromEncoded of a relative reference: the text up to '?' is the
\* path, the text from there to '#' the query
QUrlFromEncoded(text) ==
    LET h == IndexOf(text, "#")
        t == IF h = 0 THEN text ELSE SubSeq(text, 1, h - 1)
        q == IndexOf(t, "?")
    IN  [ path  |-> FromPercentEncoding(IF q = 0 THEN t ELSE SubSeq(t, 1, q - 1)),
          items |-> QueryItemsOf(IF q = 0 THEN "" ELSE Mid(t, q)) ]

\* QUrl::path
Path(u) == u.path

\* QUrl::queryItems
QueryItems(u) == u.items

\* QUrl::hasQueryItem
HasQueryItem(u, key) == \E i \in 1..Len(QueryItems(u)) : QueryItems(u)[i][1] = key

\* QUrl::queryItemValue: the value of the first item with that key
QueryItemValue(u, key) ==
    LET items == QueryItems(u)
        hits  == { i \in 1..Len(items) : items[i][1] = key }
    IN  IF hits = {} THEN ""
        ELSE items[CHOOSE i \in hits : \A j \in hits : i <= j][2]

(***************************************************************************)
(* State of the GlobalActionManager and of its collaborators.              *)
(***************************************************************************)
VARIABLES
    m_waitingToPlay,      \* query_ptr: the query waited for, or Null
    m_waitingToBookmark,  \* query_ptr: the query to bookmark once the playlist exists
    m_toShow,             \* playlist_ptr: TRUE when the bookmarks playlist is to be shown
    queries,              \* every Query built so far; a query's identity is its index
    connected,            \* per query: connections resolvingFinished -> waitingForResolved
    inPipeline,           \* queries the Pipeline still holds (resolve was called)
    playable,             \* queries for which Query::playable() is true
    finished,             \* queries whose resolvingFinished was emitted at least once
    isPlaying,            \* AudioEngine::isPlaying()
    playCalls,            \* AudioEngine::play() calls: the sender of the completion
    queue,                \* ViewManager::queue()->model(): the play queue
    parsers,              \* SpotifyParsers at work: the slot their track() is connected to
    loaders,              \* XSPFLoader / JSPFLoader started
    playlists,            \* playlists created by Playlist::create / DynamicPlaylist::create
    view,                 \* what the ViewManager was last asked to show, and the filter
    bookmarks,            \* the local collection's bookmarks playlist
    clipboard,            \* QApplication::clipboard() text
    dropParsers,          \* the parsers handleTrackUrls started: their kind and urls
    tracksEmitted,        \* the emissions of tracks() by tracksFromMimeData: the format
    result,               \* the value the call of the last step returned (FALSE when
                          \* the step is no call of parseTomahawkLink)
    last,                 \* the operation of the last step
    m_cacheManifest,      \* TomahawkCache: the "clients" list of the manifest
    cached_settings,      \* TomahawkCache: the CacheData stored per ( identifier, key )
    now,                  \* QDateTime::currentMSecsSinceEpoch()
    latestPut,            \* per ( identifier, key ): what the latest putData gave
    got                   \* the last call of TomahawkCache and what getData returned

coordVars  == << m_waitingToPlay, connected, playCalls >>
queryVars  == << queries, inPipeline, playable, finished >>
bookVars   == << m_waitingToBookmark, m_toShow, bookmarks >>
routerVars == << loaders, playlists, view >>
dropVars   == << dropParsers, tracksEmitted >>
cacheVars  == << m_cacheManifest, cached_settings, now, latestPut, got >>

vars == << m_waitingToPlay, m_waitingToBookmark, m_toShow, queries, connected,
           inPipeline, playable, finished, isPlaying, playCalls, queue, parsers,
           loaders, playlists, view, bookmarks, clipboard, dropParsers,
           tracksEmitted, result, last, m_cacheManifest, cached_settings, now,
           latestPut, got >>

QueryIds == 1..MaxQueries

NoOp == [ op |-> "init", url |-> "", sender |-> Null, played |-> FALSE, built |-> 0 ]

Init ==
    /\ m_waitingToPlay = Null
    /\ m_waitingToBookmark = Null
    /\ m_toShow = FALSE
    /\ queries = << >>
    /\ connected = [ q \in QueryIds |-> 0 ]
    /\ inPipeline = {}
    /\ playable = {}
    /\ finished = {}
    /\ isPlaying \in BOOLEAN
    /\ playCalls = << >>
    /\ queue = << >>
    /\ parsers = << >>
    /\ loaders = << >>
    /\ playlists = << >>
    /\ view = [ shown |-> "none", filter |-> "" ]
    /\ bookmarks = [ exists |-> FALSE, creating |-> 0, signalConnected |-> FALSE,
                     entries |-> << >>, revisionConnections |-> 0,
                     assertFailed |-> FALSE, shows |-> 0 ]
    /\ clipboard = ""
    /\ dropParsers = << >>
    /\ tracksEmitted = << >>
    /\ result = FALSE
    /\ last = NoOp
    /\ m_cacheManifest = << >>
    /\ cached_settings = << >>
    /\ now = 0
    /\ latestPut = << >>
    /\ got = [ identifier |-> "", key |-> "", data |-> "" ]

(***************************************************************************)
(* Queries.                                                                *)
(***************************************************************************)
\* Query::get( artist, title, album ): a new query; by names the handler
\* that built it
NewQuery(artist, title, album, hint, by) ==
    [ artist |-> artist, title |-> title, album |-> album, resultHint |-> hint,
      by |-> by ]

\* the identity the next Query::get returns
NextQuery == Len(queries) + 1

\* a query lives as long as a query_ptr to it is held
Alive(q) ==
    \/ q \in inPipeline
    \/ q = m_waitingToPlay
    \/ q = m_waitingToBookmark
    \/ \E i \in 1..Len(queue) : queue[i] = q
    \/ \E i \in 1..Len(bookmarks.entries) : bookmarks.entries[i] = q

\* the queries whose resolvingFinished is connected to waitingForResolved
Subscribed == { q \in 1..Len(queries) : connected[q] > 0 /\ Alive(q) }

\* the title, artist, album and url of a command: each foreach loop
\* assigns the fields item after item
RECURSIVE TrackFields(_, _)
TrackFields(items, acc) ==
    IF items = << >> THEN acc
    ELSE LET pair == Head(items)
             nxt  == IF pair[1] = "title" THEN [acc EXCEPT !.title = pair[2]]
                     ELSE IF pair[1] = "artist" THEN [acc EXCEPT !.artist = pair[2]]
                     ELSE IF pair[1] = "album" THEN [acc EXCEPT !.album = pair[2]]
                     ELSE IF pair[1] = "url" THEN [acc EXCEPT !.urlStr = pair[2]]
                     ELSE acc
         IN  TrackFields(Tail(items), nxt)

NoFields == [ title |-> "", artist |-> "", album |-> "", urlStr |-> "" ]

\* the rest of the command: url.path().split( "/" ).mid( 1 )
Parts(u) == ListMid(Split(Path(u), "/"), 1)

(***************************************************************************)
(* Echonest::DynamicPlaylist (libechonest): the enumerations whose values  *)
(* the code stores in a control's match().  A constant's value is its      *)
(* position in the enumeration, counted from 0.                            *)
(***************************************************************************)
PlaylistParam ==
    << "Type", "Format", "Pick", "Variety", "ArtistId", "Artist",
       "ArtistSeedCatalog", "SourceCatalog", "SongId", "Description", "Results",
       "MaxTempo", "MinTempo", "MaxDuration", "MinDuration", "MaxLoudness",
       "MinLoudness", "MinDanceability", "MaxDanceability", "MinEnergy",
       "MaxEnergy", "ArtistMaxFamiliarity", "ArtistMinFamiliarity",
       "ArtistMaxHotttnesss", "ArtistMinHotttnesss", "SongMaxHotttnesss",
       "SongMinHotttnesss", "ArtistMinLongitude", "ArtistMaxLongitude",
       "ArtistMinLatitude", "ArtistMaxLatitude", "Mode", "Key",
       "SongInformation", "Sort", "Limit", "Audio", "DMCA", "ChainXSPF", "Mood",
       "Style", "Adventurousness" >>

ArtistTypeEnum ==
    << "ArtistType", "ArtistRadioType", "ArtistDescriptionType", "CatalogType",
       "CatalogRadioType", "SongRadioType" >>

EnumValue(enum, name) == (CHOOSE i \in 1..Len(enum) : enum[i] = name) - 1

Param(name) == EnumValue(PlaylistParam, name)

ArtistTypeOf(name) == EnumValue(ArtistTypeEnum, name)

(***************************************************************************)
(* The handlers.  Every handler sets result' and the primed value of       *)
(* every variable of handlerVars.                                          *)
(***************************************************************************)
handlerVars ==
    << m_waitingToPlay, connected, playCalls, queries, inPipeline, playable,
       finished, queue, parsers, loaders, playlists, view,
       m_waitingToBookmark, m_toShow, bookmarks >>

\* a command rejected without effect
Reject == result' = FALSE /\ UNCHANGED handlerVars

\* new XSPFLoader / JSPFLoader; l->load( url ); its ok() is connected to show
StartLoader(kind, url, title, res) ==
    /\ Len(loaders) < MaxObjects
    /\ loaders' = Append(loaders, [ kind |-> kind, url |-> url, title |-> title ])
    /\ result' = res
    /\ UNCHANGED << m_waitingToPlay, connected, playCalls, queries, inPipeline,
                    playable, finished, queue, parsers, playlists, view,
                    m_waitingToBookmark, m_toShow, bookmarks >>

\* handlePlaylistCommand creating a playlist whether or not a title is given
HandlePlaylistCommand_NoTitleCheck(u) ==
    LET parts == Parts(u)
    IN  IF parts = << >> THEN Reject
        ELSE IF parts[1] = "import" THEN
            IF ~HasQueryItem(u, "xspf") THEN Reject
            ELSE StartLoader("xspf", QueryItemValue(u, "xspf"),
                             IF HasQueryItem(u, "title") THEN QueryItemValue(u, "title") ELSE "",
                             FALSE)
        ELSE IF parts[1] = "new" THEN
                 /\ Len(playlists) < MaxPlaylists
                 /\ playlists' = Append(playlists,
                        [ title |-> QueryItemValue(u, "title"), mode |-> "Playlist",
                          type |-> "", controls |-> << >>, revisions |-> 0,
                          entriesFixed |-> FALSE ])
                 /\ view' = [view EXCEPT !.shown = "playlist"]
                 /\ result' = FALSE
                 /\ UNCHANGED << m_waitingToPlay, connected, playCalls, queries,
                                 inPipeline, playable, finished, queue, parsers,
                                 loaders, m_waitingToBookmark, m_toShow, bookmarks >>
        ELSE Reject

\* handlePlaylistCommand with add handled as new
HandlePlaylistCommand_AddCreates(u) ==
    LET parts == Parts(u)
    IN  IF parts = << >> THEN Reject
        ELSE IF parts[1] = "import" THEN
            IF ~HasQueryItem(u, "xspf") THEN Reject
            ELSE StartLoader("xspf", QueryItemValue(u, "xspf"),
                             IF HasQueryItem(u, "title") THEN QueryItemValue(u, "title") ELSE "",
                             FALSE)
        ELSE IF parts[1] = "new" \/ parts[1] = "add" THEN
            IF ~HasQueryItem(u, "title") THEN Reject
            ELSE /\ Len(playlists) < MaxPlaylists
                 /\ playlists' = Append(playlists,
                        [ title |-> QueryItemValue(u, "title"), mode |-> "Playlist",
                          type |-> "", controls |-> << >>, revisions |-> 0,
                          entriesFixed |-> FALSE ])
                 /\ view' = [view EXCEPT !.shown = "playlist"]
                 /\ result' = FALSE
                 /\ UNCHANGED << m_waitingToPlay, connected, playCalls, queries,
                                 inPipeline, playable, finished, queue, parsers,
                                 loaders, m_waitingToBookmark, m_toShow, bookmarks >>
        ELSE Reject

\* GlobalActionManager::handlePlaylistCommand
HandlePlaylistCommand(u) ==
    LET parts == Parts(u)
    IN  IF parts = << >> THEN Reject
        ELSE IF parts[1] = "import" THEN
            IF ~HasQueryItem(u, "xspf") THEN Reject
            ELSE StartLoader("xspf", QueryItemValue(u, "xspf"),
                             IF HasQueryItem(u, "title") THEN QueryItemValue(u, "title") ELSE "",
                             FALSE)
        ELSE IF parts[1] = "new" THEN
            IF ~HasQueryItem(u, "title") THEN Reject
            ELSE /\ Len(playlists) < MaxPlaylists
                 /\ playlists' = Append(playlists,
                        [ title |-> QueryItemValue(u, "title"), mode |-> "Playlist",
                          type |-> "", controls |-> << >>, revisions |-> 0,
                          entriesFixed |-> FALSE ])
                 /\ view' = [view EXCEPT !.shown = "playlist"]
                 /\ result' = FALSE
                 /\ UNCHANGED << m_waitingToPlay, connected, playCalls, queries,
                                 inPipeline, playable, finished, queue, parsers,
                                 loaders, m_waitingToBookmark, m_toShow, bookmarks >>
        ELSE Reject

\* GlobalActionManager::handleCollectionCommand
HandleCollectionCommand(u) == Reject

\* handleOpenTrack with a slot of its own request kind: a pending request is
\* not replaced
HandleOpenTrack_KeepsPending(q) ==
    /\ queue' = Append(queue, q)
    /\ view' = [view EXCEPT !.shown = "queue"]
    /\ IF ~isPlaying /\ m_waitingToPlay = Null
       THEN /\ connected' = [connected EXCEPT ![q] = @ + 1]
            /\ m_waitingToPlay' = q
       ELSE UNCHANGED << connected, m_waitingToPlay >>

\* handleOpenTrack registering the query whatever the engine does
HandleOpenTrack_AlwaysRegisters(q) ==
    /\ queue' = Append(queue, q)
    /\ view' = [view EXCEPT !.shown = "queue"]
    /\ connected' = [connected EXCEPT ![q] = @ + 1]
    /\ m_waitingToPlay' = q

\* GlobalActionManager::handleOpenTrack: the part on the queue, the view and
\* the pending slot
HandleOpenTrack(q) ==
    /\ queue' = Append(queue, q)
    /\ view' = [view EXCEPT !.shown = "queue"]
    /\ IF ~isPlaying
       THEN /\ connected' = [connected EXCEPT ![q] = @ + 1]
            /\ m_waitingToPlay' = q
       ELSE UNCHANGED << connected, m_waitingToPlay >>

\* new SpotifyParser( url ); its track() is connected to slot
StartSpotifyParser(slot, url, res) ==
    /\ Len(parsers) < MaxObjects
    /\ parsers' = Append(parsers, [ slot |-> slot, url |-> url ])
    /\ result' = res
    /\ UNCHANGED << m_waitingToPlay, connected, playCalls, queries, inPipeline,
                    playable, finished, queue, loaders, playlists, view,
                    m_waitingToBookmark, m_toShow, bookmarks >>

\* the url a queueSpotify loop ends with: the last spotifyURL / spotifyURI item
RECURSIVE SpotifyUrlOf(_, _)
SpotifyUrlOf(items, url) ==
    IF items = << >> THEN url
    ELSE SpotifyUrlOf(Tail(items),
                      IF Head(items)[1] = "spotifyURL" \/ Head(items)[1] = "spotifyURI"
                      THEN Head(items)[2] ELSE url)

\* QUrl::fromUserInput( text ).toString()
FromUserInput(text) == IF Contains(text, "://") THEN text ELSE "http://" \o text

\* QFileInfo( QUrl::path ).baseName(): the last path component up to its first '.'
BaseName(urlText) ==
    LET rest == Mid(urlText, IndexOf(urlText, "://") + 2)
        segs == Split(rest, "/")
        name == IF Len(segs) < 2 THEN "" ELSE segs[Len(segs)]
    IN  Split(name, ".")[1]

\* the first item of the url loop of doQueueAdd: the items before it are skipped
FirstUrl(items) ==
    LET hits == { i \in 1..Len(items) : items[i][1] = "url" }
    IN  IF hits = {} THEN 0 ELSE CHOOSE i \in hits : \A j \in hits : i <= j

\* GlobalActionManager::doQueueAdd; returned: whether the caller returns what
\* doQueueAdd returns (handleOpenCommand) or false whatever it returns
\* (handleQueueCommand)
DoQueueAdd(parts, items, returned) ==
    IF parts # << >> /\ parts[1] = "track" THEN
        IF SpotifyUrlOf(items, "") # "" THEN
            \* queueSpotify: openSpotifyLink
            StartSpotifyParser("handleOpenTrack", SpotifyUrlOf(items, ""), returned)
        ELSE LET f == TrackFields(items, NoFields)
                 q == NextQuery
             IN  IF f.title # "" \/ f.artist # "" \/ f.album # "" THEN
                     /\ Len(queries) < MaxQueries
                     /\ queries' = Append(queries,
                            NewQuery(f.artist, f.title, f.album, f.urlStr, "open"))
                     /\ inPipeline' = inPipeline \cup { q }
                     /\ HandleOpenTrack(q)
                     /\ result' = returned
                     /\ UNCHANGED << playCalls, playable, finished, parsers, loaders,
                                     playlists, m_waitingToBookmark, m_toShow, bookmarks >>
                 ELSE IF FirstUrl(items) = 0 THEN
                     result' = FALSE /\ UNCHANGED handlerVars
                 ELSE LET track == FromUserInput(items[FirstUrl(items)][2])
                      IN  IF StartsWith(track, "file://") THEN
                              result' = returned /\ UNCHANGED handlerVars
                          ELSE
                              /\ Len(queries) < MaxQueries
                              /\ queries' = Append(queries,
                                     NewQuery("", BaseName(track), "", track, "url"))
                              /\ inPipeline' = inPipeline \cup { q }
                              /\ queue' = Append(queue, q)
                              /\ view' = [view EXCEPT !.shown = "queue"]
                              /\ result' = returned
                              /\ UNCHANGED << m_waitingToPlay, connected, playCalls,
                                              playable, finished, parsers, loaders,
                                              playlists, m_waitingToBookmark, m_toShow,
                                              bookmarks >>
    ELSE result' = FALSE /\ UNCHANGED handlerVars

\* GlobalActionManager::handleOpenCommand
HandleOpenCommand(u) ==
    IF Parts(u) = << >> THEN Reject
    ELSE DoQueueAdd(Parts(u), QueryItems(u), TRUE)

\* GlobalActionManager::handleQueueCommand
HandleQueueCommand(u) ==
    LET parts == Parts(u)
    IN  IF parts = << >> THEN Reject
        ELSE IF parts[1] = "add" THEN DoQueueAdd(ListMid(parts, 1), QueryItems(u), FALSE)
        ELSE Reject

\* handleSearchCommand without the check of the joined text
HandleSearchCommand_NoEmptyCheck(u) ==
    LET query == (IF HasQueryItem(u, "artist") THEN << QueryItemValue(u, "artist") >> ELSE << >>)
                 \o (IF HasQueryItem(u, "album") THEN << QueryItemValue(u, "album") >> ELSE << >>)
                 \o (IF HasQueryItem(u, "title") THEN << QueryItemValue(u, "title") >> ELSE << >>)
        queryStr == Join(query, " ")
    IN  /\ view' = [ shown |-> "supercollection", filter |-> queryStr ]
        /\ result' = TRUE
        /\ UNCHANGED << m_waitingToPlay, connected, playCalls, queries, inPipeline,
                        playable, finished, queue, parsers, loaders, playlists,
                        m_waitingToBookmark, m_toShow, bookmarks >>

\* GlobalActionManager::handleSearchCommand
HandleSearchCommand(u) ==
    LET query == (IF HasQueryItem(u, "artist") THEN << QueryItemValue(u, "artist") >> ELSE << >>)
                 \o (IF HasQueryItem(u, "album") THEN << QueryItemValue(u, "album") >> ELSE << >>)
                 \o (IF HasQueryItem(u, "title") THEN << QueryItemValue(u, "title") >> ELSE << >>)
        queryStr == Join(query, " ")
    IN  IF queryStr = "" THEN Reject
        ELSE /\ view' = [ shown |-> "supercollection", filter |-> queryStr ]
             /\ result' = TRUE
             /\ UNCHANGED << m_waitingToPlay, connected, playCalls, queries, inPipeline,
                             playable, finished, queue, parsers, loaders, playlists,
                             m_waitingToBookmark, m_toShow, bookmarks >>

\* one branch of the parameter chain of loadDynamicPlaylist:
\* createControl( type ), setInput( value ), setMatch( QString::number( match ) )
Control(type, value, match) == [ selectedType |-> type, input |-> value, match |-> match ]

\* the extra of tempo, duration and loudness used for every ranged parameter
Extra_AlwaysMinusOne(name, ifMax) == IF EndsWith(name, "_max") THEN -1 ELSE 0

\* the suffix _max not looked at
Extra_NoSuffix(name, ifMax) == 0

\* the extra added to the Min... constant of a ranged parameter
Extra(name, ifMax) == IF EndsWith(name, "_max") THEN ifMax ELSE 0

\* the controls one query item adds in loadDynamicPlaylist (none, or one)
ControlsOf(param) ==
    LET name == param[1]
        value == param[2]
    IN  IF name = "artist" THEN
            << Control("Artist", value, ArtistTypeOf("ArtistRadioType")) >>
        ELSE IF name = "artist_limitto" THEN
            << Control("Artist", value, ArtistTypeOf("ArtistType")) >>
        ELSE IF name = "description" THEN
            << Control("Artist Description", value, ArtistTypeOf("ArtistDescriptionType")) >>
        ELSE IF name = "variety" THEN
            << Control("Variety", value, Param("Variety")) >>
        ELSE IF StartsWith(name, "tempo") THEN
            << Control("Tempo", value, Param("MinTempo") + Extra(name, -1)) >>
        ELSE IF StartsWith(name, "duration") THEN
            << Control("Duration", value, Param("MinDuration") + Extra(name, -1)) >>
        ELSE IF StartsWith(name, "loudness") THEN
            << Control("Loudness", value, Param("MinLoudness") + Extra(name, -1)) >>
        ELSE IF StartsWith(name, "danceability") THEN
            << Control("Danceability", value, Param("MinDanceability") + Extra(name, 1)) >>
        ELSE IF StartsWith(name, "energy") THEN
            << Control("Energy", value, Param("MinEnergy") + Extra(name, 1)) >>
        ELSE IF StartsWith(name, "artist_familiarity") THEN
            << Control("Artist Familiarity", value,
                       Param("ArtistMinFamiliarity") + Extra(name, -1)) >>
        ELSE IF StartsWith(name, "artist_hotttnesss") THEN
            << Control("Artist Hotttnesss", value,
                       Param("ArtistMinHotttnesss") + Extra(name, -1)) >>
        ELSE IF StartsWith(name, "song_hotttnesss") THEN
            << Control("Song Hotttnesss", value,
                       Param("SongMinHotttnesss") + Extra(name, -1)) >>
        ELSE IF StartsWith(name, "longitude") THEN
            << Control("Longitude", value, Param("ArtistMinLongitude") + Extra(name, 1)) >>
        ELSE IF StartsWith(name, "latitude") THEN
            << Control("Latitude", value, Param("ArtistMinLatitude") + Extra(name, 1)) >>
        ELSE IF name = "key" THEN << Control("Key", value, Param("Key")) >>
        ELSE IF name = "mode" THEN << Control("Mode", value, Param("Mode")) >>
        ELSE IF name = "mood" THEN << Control("Mood", value, Param("Mood")) >>
        ELSE IF name = "style" THEN << Control("Style", value, Param("Style")) >>
        ELSE IF name = "song" THEN
            << Control("Song", value, ArtistTypeOf("SongRadioType")) >>
        ELSE << >>

\* the foreach over url.queryItems() of loadDynamicPlaylist
RECURSIVE BuildControls(_)
BuildControls(items) ==
    IF items = << >> THEN << >>
    ELSE ControlsOf(Head(items)) \o BuildControls(Tail(items))

\* loadDynamicPlaylist asking for a title only
LoadDynamicPlaylist_TitleOnly(u, station) ==
    LET parts == Parts(u)
    IN  IF parts = << >> THEN Reject
        ELSE IF parts[1] = "create" THEN
            IF ~HasQueryItem(u, "title") THEN Reject
            ELSE /\ Len(playlists) < MaxPlaylists
                 /\ playlists' = Append(playlists,
                        [ title |-> QueryItemValue(u, "title"),
                          mode |-> IF station THEN "OnDemand" ELSE "Static",
                          type |-> QueryItemValue(u, "type"),
                          controls |-> BuildControls(QueryItems(u)),
                          revisions |-> 1,
                          entriesFixed |-> ~station ])
                 /\ result' = TRUE
                 /\ UNCHANGED << m_waitingToPlay, connected, playCalls, queries,
                                 inPipeline, playable, finished, queue, parsers,
                                 loaders, view, m_waitingToBookmark, m_toShow,
                                 bookmarks >>
        ELSE Reject

\* GlobalActionManager::loadDynamicPlaylist; the handlers return whether
\* the playlist it returns is non-null
LoadDynamicPlaylist(u, station) ==
    LET parts == Parts(u)
    IN  IF parts = << >> THEN Reject
        ELSE IF parts[1] = "create" THEN
            IF ~HasQueryItem(u, "title") \/ ~HasQueryItem(u, "type") THEN Reject
            ELSE /\ Len(playlists) < MaxPlaylists
                 /\ playlists' = Append(playlists,
                        [ title |-> QueryItemValue(u, "title"),
                          mode |-> IF station THEN "OnDemand" ELSE "Static",
                          type |-> QueryItemValue(u, "type"),
                          controls |-> BuildControls(QueryItems(u)),
                          revisions |-> 1,
                          entriesFixed |-> ~station ])
                 /\ result' = TRUE
                 /\ UNCHANGED << m_waitingToPlay, connected, playCalls, queries,
                                 inPipeline, playable, finished, queue, parsers,
                                 loaders, view, m_waitingToBookmark, m_toShow,
                                 bookmarks >>
        ELSE Reject

\* GlobalActionManager::handleStationCommand
HandleStationCommand(u) == LoadDynamicPlaylist(u, TRUE)

\* handleAutoPlaylistCommand building a station
HandleAutoPlaylistCommand_OnDemand(u) == LoadDynamicPlaylist(u, TRUE)

\* GlobalActionManager::handleAutoPlaylistCommand
HandleAutoPlaylistCommand(u) == LoadDynamicPlaylist(u, FALSE)

\* GlobalActionManager::playSpotify: whether the command carries a spotify link
PlaySpotify(u) == HasQueryItem(u, "spotifyURI") \/ HasQueryItem(u, "spotifyURL")

\* GlobalActionManager::handlePlayCommand
HandlePlayCommand(u) ==
    LET parts == Parts(u)
        f == TrackFields(QueryItems(u), NoFields)
        q == NextQuery
    IN  IF parts = << >> THEN Reject
        ELSE IF parts[1] = "track" THEN
            IF PlaySpotify(u) THEN
                StartSpotifyParser("spotifyToPlay",
                    IF HasQueryItem(u, "spotifyURI") THEN QueryItemValue(u, "spotifyURI")
                    ELSE QueryItemValue(u, "spotifyURL"), TRUE)
            ELSE /\ Len(queries) < MaxQueries
                 /\ queries' = Append(queries,
                        NewQuery(f.artist, f.title, f.album, f.urlStr, "play"))
                 /\ inPipeline' = inPipeline \cup { q }
                 /\ m_waitingToPlay' = q
                 /\ connected' = [connected EXCEPT ![q] = @ + 1]
                 /\ result' = TRUE
                 /\ UNCHANGED << playCalls, playable, finished, queue, parsers,
                                 loaders, playlists, view, m_waitingToBookmark,
                                 m_toShow, bookmarks >>
        ELSE Reject

\* parseTomahawkLink up to the dispatch: whether the text holds the scheme,
\* the command type and the QUrl of the command
Decode(url) ==
    LET cmd == Replace(Mid(url, 11), "%2B", "%20")
    IN  [ ours    |-> Contains(url, "tomahawk://"),
          cmdType |-> Split(cmd, "/")[1],
          u       |-> QUrlFromEncoded(cmd) ]

\* the dispatch with an unknown command type handled as a play command
Dispatch_DefaultPlay(d) ==
    LET cmdType == d.cmdType
        u == d.u
    IN  IF ~d.ours THEN Reject
        ELSE IF cmdType = "load" /\ HasQueryItem(u, "xspf") THEN
            StartLoader("xspf", FromUserInput(QueryItemValue(u, "xspf")), "", TRUE)
        ELSE IF cmdType = "load" /\ HasQueryItem(u, "jspf") THEN
            StartLoader("jspf", FromUserInput(QueryItemValue(u, "jspf")), "", TRUE)
        ELSE IF cmdType = "playlist" THEN HandlePlaylistCommand(u)
        ELSE IF cmdType = "collection" THEN HandleCollectionCommand(u)
        ELSE IF cmdType = "queue" THEN HandleQueueCommand(u)
        ELSE IF cmdType = "station" THEN HandleStationCommand(u)
        ELSE IF cmdType = "autoplaylist" THEN HandleAutoPlaylistCommand(u)
        ELSE IF cmdType = "search" THEN HandleSearchCommand(u)
        ELSE IF cmdType = "open" THEN HandleOpenCommand(u)
        ELSE HandlePlayCommand(u)

\* GlobalActionManager::parseTomahawkLink: the dispatch on a decoded link
Dispatch(d) ==
    LET cmdType == d.cmdType
        u == d.u
    IN  IF ~d.ours THEN Reject
        ELSE IF cmdType = "load" /\ HasQueryItem(u, "xspf") THEN
            StartLoader("xspf", FromUserInput(QueryItemValue(u, "xspf")), "", TRUE)
        ELSE IF cmdType = "load" /\ HasQueryItem(u, "jspf") THEN
            StartLoader("jspf", FromUserInput(QueryItemValue(u, "jspf")), "", TRUE)
        ELSE IF cmdType = "playlist" THEN HandlePlaylistCommand(u)
        ELSE IF cmdType = "collection" THEN HandleCollectionCommand(u)
        ELSE IF cmdType = "queue" THEN HandleQueueCommand(u)
        ELSE IF cmdType = "station" THEN HandleStationCommand(u)
        ELSE IF cmdType = "autoplaylist" THEN HandleAutoPlaylistCommand(u)
        ELSE IF cmdType = "search" THEN HandleSearchCommand(u)
        ELSE IF cmdType = "play" THEN HandlePlayCommand(u)
        ELSE IF cmdType = "bookmark" THEN HandlePlayCommand(u)
        ELSE IF cmdType = "open" THEN HandleOpenCommand(u)
        ELSE Reject

(***************************************************************************)
(* The links given to parseTomahawkLink.                                   *)
(***************************************************************************)
PlayLink == "tomahawk://play/track?artist=A&title=T"

BookmarkLink == "tomahawk://bookmark/track?artist=A&title=T"

OpenTrackLink == "tomahawk://open/track/?title=T&artist=A"

SpotifyPlayLink == "tomahawk://play/track?spotifyURI=s"

\* the links of Spec
Links ==
    { PlayLink, BookmarkLink, OpenTrackLink, SpotifyPlayLink,
      "tomahawk://play/album?title=T",
      "http://toma.hk/open/track/?title=T&artist=A" }

\* the filter parameters of the vocabulary of loadDynamicPlaylist, lower
\* bound before upper bound
FilterLink1 ==
    "tomahawk://station/create/?type=echonest&title=T"
    \o "&artist=1&artist_limitto=2&description=3&variety=4&tempo=5&tempo_max=6"
    \o "&duration=7&duration_max=8&loudness=9&loudness_max=10&danceability=11"
    \o "&danceability_max=12&energy=13&energy_max=14"

FilterLink2 ==
    "tomahawk://autoplaylist/create/?title=it%27s%20a%26b%3Dc&type=echonest"
    \o "&artist_familiarity=1&artist_familiarity_max=2&artist_hotttnesss=3"
    \o "&artist_hotttnesss_max=4&song_hotttnesss=5&song_hotttnesss_max=6"
    \o "&longitude=7&longitude_max=8&latitude=9&latitude_max=10"
    \o "&key=11&mode=12&mood=13&style=14&song=15"

\* upper bounds before lower bounds, a parameter given twice, an empty
\* title, values with encoded and with literal delimiters
FilterLink3 ==
    "tomahawk://station/create/?type=echonest&title="
    \o "&song=9&energy_max=8&energy=7&latitude_max=6&tempo_max=5&tempo=4"
    \o "&mood=50%25%20a+b&artist_limitto=2&artist=1&mood=%231/2?"

\* the links that build the dynamic playlists of SpecShare
StationLinks ==
    { FilterLink1, FilterLink2, FilterLink3,
      "tomahawk://station/create/?type=database&title=T&artist=A" }

\* the links that build the tracks of SpecShare
TrackLinks ==
    { "tomahawk://open/track/?title=T&artist=A&album=L",
      "tomahawk://open/track/?title=it%27s%20a%26b%3Dc&album=50%25",
      "tomahawk://open/track/?title=a+b&artist=%231/2?&album=%252B",
      "tomahawk://open/track/?url=http://h/m/" }

ShareLinks == StationLinks \cup TrackLinks

\* station links with the parameters whose Min... constant precedes its
\* Max... constant in PlaylistParam
InvertedLink1 == "tomahawk://station/create/?type=echonest&title=T&danceability_max=0.2"

InvertedLink2 ==
    "tomahawk://autoplaylist/create/?type=echonest&title=T"
    \o "&energy=1&energy_max=2&latitude=3&latitude_max=4&longitude=5"
    \o "&longitude_max=6&danceability=7"

InvertedLinks == { InvertedLink1, InvertedLink2 }

\* station links with the parameters whose Max... constant precedes its
\* Min... constant in PlaylistParam
RegularLink1 == "tomahawk://station/create/?type=echonest&title=T&duration=30&duration_max=120"

RegularLink2 ==
    "tomahawk://autoplaylist/create/?type=echonest&title=T"
    \o "&tempo_max=1&tempo=2&loudness=3&loudness_max=4&artist_familiarity=5"
    \o "&artist_familiarity_max=6&artist_hotttnesss_max=7&artist_hotttnesss=8"
    \o "&song_hotttnesss=9&song_hotttnesss_max=10"

RegularLinks == { RegularLink1, RegularLink2 }

\* station links with parameters that are not of the vocabulary
UnknownLink == "tomahawk://station/create/?type=echonest&title=T&foo=1&limit=2"

PrefixLink == "tomahawk://station/create/?type=echonest&title=T&tempo_foo=1&energyx=2"

\* station links without filter parameters, without a type, without a title,
\* with another subcommand, without a subcommand
BareStationLink == "tomahawk://station/create/?type=echonest&title=T"

BareAutoPlaylistLink == "tomahawk://autoplaylist/create/?title=T&type=echonest"

RejectedStationLinks ==
    { "tomahawk://station/create/?title=T&artist=A",
      "tomahawk://autoplaylist/create/?type=echonest&artist=A",
      "tomahawk://station/delete/?type=echonest&title=T&artist=A",
      "tomahawk://autoplaylist" }

\* the links of SpecStation
SpecStationLinks ==
    InvertedLinks \cup RegularLinks \cup RejectedStationLinks
    \cup { UnknownLink, PrefixLink, BareStationLink, BareAutoPlaylistLink }

\* links with a key given twice
DuplicatePlayLink == "tomahawk://play/track?title=T&title=U&artist=A"

DuplicateStationLink == "tomahawk://station/create/?type=echonest&title=T&artist=A&artist=B"

\* playlist commands
ImportLink == "tomahawk://playlist/import?xspf=http://h/p.xspf&title=T"

ImportNoXspfLink == "tomahawk://playlist/import?title=T"

NewPlaylistLink == "tomahawk://playlist/new?title=T"

NewNoTitleLink == "tomahawk://playlist/new?artist=A"

\* queue and open commands
QueueAddLink == "tomahawk://queue/add/track?title=T&artist=A"

QueueUrlsLink == "tomahawk://queue/add/track?url=http://h/a.mp3&url=http://h/b.mp3"

OpenUrlsLink == "tomahawk://open/track/?url=http://h/a.mp3&url=http://h/b.mp3"

\* an open command and a queue command with the same parameters
OpenQueuePair == << "tomahawk://open/track?title=T&artist=A", QueueAddLink >>

\* collection commands and playlist/add commands
PlaylistAddLink == "tomahawk://playlist/add?xspf=http://h/p.xspf&title=T"

UnimplementedLinks ==
    { PlaylistAddLink, "tomahawk://playlist/add?title=T", "tomahawk://playlist/add",
      "tomahawk://collection/add", "tomahawk://collection/add?title=T&artist=A",
      "tomahawk://collection/", "tomahawk://collection/new?title=T" }

\* the links of SpecRouter
SpecRouterLinks ==
    { DuplicatePlayLink, DuplicateStationLink, ImportLink, ImportNoXspfLink,
      NewPlaylistLink, NewNoTitleLink, QueueAddLink, QueueUrlsLink, OpenUrlsLink,
      OpenTrackLink, OpenQueuePair[1], "tomahawk://queue/remove/track?title=T" }
    \cup UnimplementedLinks

\* play commands without title, artist, album and spotify link
NoFieldsPlayLink == "tomahawk://play/track?foo=1"

BarePlayLink == "tomahawk://play/track"

\* a search command with a search field of empty value
EmptySearchLink == "tomahawk://search/?artist="

\* search commands: with values, with empty values, without a search field
SearchLinks ==
    { EmptySearchLink, "tomahawk://search/?artist=X",
      "tomahawk://search/?title=T&album=L", "tomahawk://search/?artist=&album=",
      "tomahawk://search/?foo=1", "tomahawk://search/" }

\* a text that holds the scheme, but not at its start
LatePrefixLink == "0123456789Aplay/track?title=T&artist=A&from=tomahawk://"

\* commands without a path segment after the command type
BareSearchLink == "tomahawk://search?artist=X"

LoadXspfLink == "tomahawk://load?xspf=http://h/p.xspf"

LoadLinks == { LoadXspfLink, "tomahawk://load?jspf=p.jspf" }

\* links with an empty or unknown command type
UnknownTypeLink == "tomahawk://foo/track?title=T&artist=A"

UnknownTypeLinks ==
    { UnknownTypeLink, "tomahawk://", "tomahawk:///play/track?title=T",
      "tomahawk://Play/track?title=T", "tomahawk://load/?foo=1", "tomahawk://load/",
      "tomahawk://plays/track?title=T" }

\* the links of SpecGrammar
SpecGrammarLinks ==
    { NoFieldsPlayLink, BarePlayLink, LatePrefixLink, BareSearchLink, PlayLink,
      QueueAddLink, NewPlaylistLink, " tomahawk://play/track?title=T&artist=A",
      "http://toma.hk/play/track?title=T&artist=A",
      "tomahawk://load/?xspf=http://h/p.xspf" }
    \cup SearchLinks \cup LoadLinks \cup UnknownTypeLinks

\* every link text of the model, decoded once
AllLinks ==
    Links \cup ShareLinks \cup SpecStationLinks \cup SpecRouterLinks
    \cup SpecGrammarLinks
    \cup { "tomahawk://bookmark/track?title=T&artist=A",
           "tomahawk://bookmark/track?title=U&url=http://h/u.mp3",
           "tomahawk://bookmark/album?title=T", "tomahawk://bookmark" }

Decoded == [ url \in AllLinks |-> Decode(url) ]

\* the decoding of a link text; a text of the clipboard is decoded when read
DecodedOf(url) == IF url \in AllLinks THEN Decoded[url] ELSE Decode(url)

\* what a step records about itself: the operation, its argument (a link, or
\* the query that sent the signal or was handed over), whether the step
\* called AudioEngine::play() and how many queries it built
Op(name, url, sender, played, built) ==
    [ op |-> name, url |-> url, sender |-> sender, played |-> played,
      built |-> built ]

\* GlobalActionManager::parseTomahawkLink
ParseTomahawkLink(url) ==
    /\ Dispatch(DecodedOf(url))
    /\ last' = Op("parseTomahawkLink", url, Null, FALSE, Len(queries') - Len(queries))
    /\ UNCHANGED << isPlaying, clipboard, dropVars, cacheVars >>

(***************************************************************************)
(* The resolution pipeline, the parsers and the audio engine.              *)
(***************************************************************************)
\* waitingForResolved without the check of the sender
WaitingForResolved_NoSenderCheck(st, sender) ==
    IF st.w # Null /\ st.w \in playable
    THEN [ w |-> Null, plays |-> Append(st.plays, sender) ]
    ELSE st

\* waitingForResolved leaving the query in the slot after play()
WaitingForResolved_KeepsPlayed(st, sender) ==
    IF st.w # sender THEN [st EXCEPT !.w = Null]
    ELSE IF st.w # Null /\ st.w \in playable
         THEN [st EXCEPT !.plays = Append(st.plays, sender)]
         ELSE st

\* GlobalActionManager::waitingForResolved, run for the signal of sender on
\* st = [ w: m_waitingToPlay, plays: the play() calls ]
WaitingForResolved(st, sender) ==
    IF st.w # sender THEN [st EXCEPT !.w = Null]
    ELSE IF st.w # Null /\ st.w \in playable
         THEN [ w |-> Null, plays |-> Append(st.plays, sender) ]
         ELSE st

\* the signal runs the slot once per connection
RECURSIVE Emit(_, _, _)
Emit(st, sender, n) ==
    IF n = 0 THEN st ELSE Emit(WaitingForResolved(st, sender), sender, n - 1)

\* Query::resolvingFinished of q is emitted (the Pipeline emits it when a
\* resolve round of q ends, and again after a later round)
ResolvingFinished(q) ==
    /\ q \in inPipeline
    /\ LET st == Emit([ w |-> m_waitingToPlay, plays |-> playCalls ], q, connected[q])
       IN  /\ m_waitingToPlay' = st.w
           /\ playCalls' = st.plays
           /\ last' = Op("resolvingFinished", "", q, st.plays # playCalls, 0)
    /\ finished' = finished \cup { q }
    /\ result' = FALSE
    /\ UNCHANGED << connected, queries, inPipeline, playable, isPlaying, queue,
                    parsers, routerVars, bookVars, clipboard, dropVars, cacheVars >>

\* the Pipeline adds results to q, or q loses its results
PipelineResults(q) ==
    /\ q \in inPipeline
    /\ playable' = IF q \in playable THEN playable \ { q } ELSE playable \cup { q }
    /\ last' = Op("results", "", q, FALSE, 0)
    /\ result' = FALSE
    /\ UNCHANGED << coordVars, queries, inPipeline, finished, isPlaying, queue,
                    parsers, routerVars, bookVars, clipboard, dropVars, cacheVars >>

\* the Pipeline is done with q and drops its query_ptr
PipelineForget(q) ==
    /\ q \in inPipeline
    /\ q \in finished
    /\ inPipeline' = inPipeline \ { q }
    /\ last' = Op("forget", "", q, FALSE, 0)
    /\ result' = FALSE
    /\ UNCHANGED << coordVars, queries, playable, finished, isPlaying, queue,
                    parsers, routerVars, bookVars, clipboard, dropVars, cacheVars >>

\* GlobalActionManager::spotifyToPlay
SpotifyToPlay(q) ==
    /\ m_waitingToPlay' = q
    /\ connected' = [connected EXCEPT ![q] = @ + 1]
    /\ UNCHANGED << queue, view >>

\* SpotifyParser i emits track( q ) to the slot it is connected to
SpotifyTrack(i) ==
    /\ i \in 1..Len(parsers)
    /\ Len(queries) < MaxQueries
    /\ LET q == NextQuery
       IN  /\ queries' = Append(queries, NewQuery("", parsers[i].url, "", "", parsers[i].slot))
           /\ inPipeline' = inPipeline \cup { q }
           /\ IF parsers[i].slot = "spotifyToPlay" THEN SpotifyToPlay(q)
              ELSE HandleOpenTrack(q)
           /\ last' = Op(parsers[i].slot, "", q, FALSE, 1)
    /\ parsers' = SubSeq(parsers, 1, i - 1) \o SubSeq(parsers, i + 1, Len(parsers))
    /\ result' = FALSE
    /\ UNCHANGED << playCalls, playable, finished, isPlaying, loaders, playlists,
                    bookVars, clipboard, dropVars, cacheVars >>

\* the audio engine starts or stops playing
EngineStateChanged ==
    /\ isPlaying' = ~isPlaying
    /\ last' = Op("engine", "", Null, FALSE, 0)
    /\ result' = FALSE
    /\ UNCHANGED << coordVars, queryVars, queue, parsers, routerVars, bookVars,
                    clipboard, dropVars, cacheVars >>

(***************************************************************************)
(* The outbound links: openLink, copyToClipboard, copyPlaylistToClipboard. *)
(* A QUrl under construction is its text before the query and its encoded  *)
(* query.                                                                  *)
(***************************************************************************)
\* GlobalActionManager::hostname
Hostname == "http://toma.hk"

\* QUrl( text ) of a text without a query
QUrlOf(text) == [ base |-> text, query |-> "" ]

\* QUrl::addEncodedQueryItem
AddEncodedQueryItem(link, key, value) ==
    [link EXCEPT !.query = (IF @ = "" THEN "" ELSE @ \o "&") \o key \o "=" \o value]

\* QUrl::addQueryItem without the percent encoding of the value
AddQueryItem_Raw(link, key, value) == AddEncodedQueryItem(link, key, value)

\* QUrl::addQueryItem
AddQueryItem(link, key, value) ==
    AddEncodedQueryItem(link, ToPercentEncoding(key), ToPercentEncoding(value))

\* QUrl::toEncoded
ToEncoded(link) == link.base \o (IF link.query = "" THEN "" ELSE "?" \o link.query)

\* GlobalActionManager::openLink
OpenLink(title, artist, album) ==
    LET l0 == QUrlOf(Hostname \o "/open/track/")
        l1 == IF title # "" THEN AddQueryItem(l0, "title", title) ELSE l0
        l2 == IF artist # "" THEN AddQueryItem(l1, "artist", artist) ELSE l1
    IN  IF album # "" THEN AddQueryItem(l2, "album", album) ELSE l2

\* GlobalActionManager::openLinkFromQuery of a query without results
OpenLinkFromQuery(q) == OpenLink(queries[q].title, queries[q].artist, queries[q].album)

\* the encoded link given to the clipboard as it is
ClipboardData_NoReplace(link) == ToEncoded(link)

\* the text copyToClipboard and copyPlaylistToClipboard give the clipboard
ClipboardData(link) == Replace(ToEncoded(link), "'", "%27")

\* the parameters copyPlaylistToClipboard names with the suffix _max
MaxParams ==
    { Param("MaxTempo"), Param("MaxDuration"), Param("MaxLoudness"),
      Param("MaxDanceability"), Param("MaxEnergy"), Param("ArtistMaxFamiliarity"),
      Param("ArtistMaxHotttnesss"), Param("SongMaxHotttnesss"),
      Param("ArtistMaxLatitude"), Param("ArtistMaxLongitude") }

\* the foreach body with MaxEnergy missing from the list of upper bounds
EncodeControl_ForgetsEnergy(c) ==
    IF c.selectedType = "Artist" THEN
        IF c.match = ArtistTypeOf("ArtistType") THEN << "artist_limitto", c.input >>
        ELSE << "artist", c.input >>
    ELSE IF c.selectedType = "Artist Description" THEN << "description", c.input >>
    ELSE LET name == Replace(ToLower(c.selectedType), " ", "_")
         IN  IF c.match \in MaxParams \ { Param("MaxEnergy") }
             THEN << name \o "_max", c.input >>
             ELSE << name, c.input >>

\* the body of the foreach of copyPlaylistToClipboard: the name and the value
\* of the query item a control adds
EncodeControl(c) ==
    IF c.selectedType = "Artist" THEN
        IF c.match = ArtistTypeOf("ArtistType") THEN << "artist_limitto", c.input >>
        ELSE << "artist", c.input >>
    ELSE IF c.selectedType = "Artist Description" THEN << "description", c.input >>
    ELSE LET name == Replace(ToLower(c.selectedType), " ", "_")
         IN  IF c.match \in MaxParams THEN << name \o "_max", c.input >>
             ELSE << name, c.input >>

\* the foreach of copyPlaylistToClipboard: the query items of the controls
EncodeControls(controls) == [ i \in 1..Len(controls) |-> EncodeControl(controls[i]) ]

RECURSIVE AddQueryItems(_, _)
AddQueryItems(link, items) ==
    IF items = << >> THEN link
    ELSE AddQueryItems(AddQueryItem(link, Head(items)[1], Head(items)[2]), Tail(items))

\* the link copyPlaylistToClipboard builds for a playlist of an echonest generator
PlaylistLink(pl) ==
    LET l0 == QUrlOf(Hostname \o "/"
                     \o (IF pl.mode = "OnDemand" THEN "station" ELSE "autoplaylist")
                     \o "/create/")
        l1 == AddEncodedQueryItem(l0, "type", "echonest")
        l2 == AddQueryItem(l1, "title", pl.title)
    IN  AddQueryItems(l2, EncodeControls(pl.controls))

\* GlobalActionManager::copyToClipboard, for a query without results
CopyToClipboard(q) ==
    /\ q \in 1..Len(queries)
    /\ q \notin playable
    /\ clipboard' = ClipboardData(OpenLinkFromQuery(q))
    /\ last' = Op("copyToClipboard", clipboard', q, FALSE, 0)
    /\ result' = FALSE
    /\ UNCHANGED << handlerVars, isPlaying, dropVars, cacheVars >>

\* copyPlaylistToClipboard without the check of the generator's type
CopyPlaylistToClipboard_NoTypeCheck(i) ==
    /\ i \in 1..Len(playlists)
    /\ playlists[i].mode \in { "OnDemand", "Static" }
    /\ clipboard' = ClipboardData(PlaylistLink(playlists[i]))
    /\ last' = Op("copyPlaylistToClipboard", clipboard', i, FALSE, 0)
    /\ result' = FALSE
    /\ UNCHANGED << handlerVars, isPlaying, dropVars, cacheVars >>

\* GlobalActionManager::copyPlaylistToClipboard, for the i-th dynamic playlist
CopyPlaylistToClipboard(i) ==
    /\ i \in 1..Len(playlists)
    /\ playlists[i].mode \in { "OnDemand", "Static" }
    /\ IF playlists[i].type # "echonest"
       THEN /\ UNCHANGED clipboard
            /\ last' = Op("copyPlaylistToClipboard", "", i, FALSE, 0)
       ELSE /\ clipboard' = ClipboardData(PlaylistLink(playlists[i]))
            /\ last' = Op("copyPlaylistToClipboard", clipboard', i, FALSE, 0)
    /\ result' = FALSE
    /\ UNCHANGED << handlerVars, isPlaying, dropVars, cacheVars >>

(***************************************************************************)
(* Dropped and pasted data: tracksFromMimeData, handleTrackUrls and        *)
(* expandedUrls.  A QMimeData is its formats and its text/plain data.      *)
(***************************************************************************)
\* the formats tracksFromMimeData converts without a parser, in the order
\* of its if-chain
StructuredFormats ==
    << "application/tomahawk.query.list", "application/tomahawk.result.list",
       "application/tomahawk.metadata.album", "application/tomahawk.metadata.artist" >>

SpotifyTrackUrl == "http://open.spotify.com/track/1"

SpotifyTrackUri == "spotify:track:2"

RdioUrl == "http://rdio.com/artist/a/track/t"

ShortUrl == "http://bit.ly/a"

\* the data given to tracksFromMimeData
MimePayloads ==
    << [ formats |-> { StructuredFormats[1] }, text |-> "" ],
       [ formats |-> { StructuredFormats[1], "text/plain" }, text |-> SpotifyTrackUrl ],
       [ formats |-> { StructuredFormats[2], StructuredFormats[3] }, text |-> "" ],
       [ formats |-> { StructuredFormats[3], StructuredFormats[4] }, text |-> "" ],
       [ formats |-> { StructuredFormats[4], "text/plain" }, text |-> RdioUrl ],
       [ formats |-> { "text/plain" },
         text |-> ShortUrl \o "\n" \o RdioUrl \o "\n" \o SpotifyTrackUri ],
       [ formats |-> { "text/plain" }, text |-> ShortUrl \o "\n" \o RdioUrl ],
       [ formats |-> { "text/plain" }, text |-> ShortUrl ],
       [ formats |-> { "text/plain" }, text |-> SpotifyTrackUrl ],
       [ formats |-> { "text/plain" }, text |-> SpotifyTrackUrl \o "\n" \o SpotifyTrackUri ],
       [ formats |-> { "text/plain" }, text |-> "hello" ],
       [ formats |-> { "application/tomahawk.plentry.list" }, text |-> "" ] >>

\* the lists a ShortenedLinkParser may emit with urls(): the urls the
\* network answered with
Expansions ==
    { << SpotifyTrackUrl >>, << SpotifyTrackUrl, SpotifyTrackUri >>, << RdioUrl >>,
      << "http://j.mp/b" >>, << "http://h/x" >>, << >> }

\* new SpotifyParser( tracks ), new RdioParser + parse( tracks ),
\* new ShortenedLinkParser( tracks ): done tells whether the parser has
\* emitted its signal
DropParser(kind, tracks) == [ kind |-> kind, tracks |-> tracks, done |-> FALSE ]

\* handleTrackUrls with rdio.com looked for before the spotify patterns
HandleTrackUrls_RdioFirst(ps, urls) ==
    IF Contains(urls, "rdio.com")
    THEN Append(ps, DropParser("rdio", Split(urls, "\n")))
    ELSE IF Contains(urls, "open.spotify.com/track") \/ Contains(urls, "spotify:track")
    THEN Append(ps, DropParser("spotify", Split(urls, "\n")))
    ELSE IF \/ Contains(urls, "bit.ly") \/ Contains(urls, "j.mp")
            \/ Contains(urls, "t.co") \/ Contains(urls, "rd.io")
    THEN Append(ps, DropParser("shortened", Split(urls, "\n")))
    ELSE ps

\* GlobalActionManager::handleTrackUrls: the parsers after the call, given
\* the parsers ps before it
HandleTrackUrls(ps, urls) ==
    IF Contains(urls, "open.spotify.com/track") \/ Contains(urls, "spotify:track")
    THEN Append(ps, DropParser("spotify", Split(urls, "\n")))
    ELSE IF Contains(urls, "rdio.com")
    THEN Append(ps, DropParser("rdio", Split(urls, "\n")))
    ELSE IF \/ Contains(urls, "bit.ly") \/ Contains(urls, "j.mp")
            \/ Contains(urls, "t.co") \/ Contains(urls, "rd.io")
    THEN Append(ps, DropParser("shortened", Split(urls, "\n")))
    ELSE ps

\* GlobalActionManager::tracksFromMimeData, for the i-th payload
TracksFromMimeData(i) ==
    /\ i \in 1..Len(MimePayloads)
    /\ LET data == MimePayloads[i]
           has == { k \in 1..Len(StructuredFormats) : StructuredFormats[k] \in data.formats }
       IN  /\ IF has # {}
              THEN /\ tracksEmitted' = Append(tracksEmitted,
                          StructuredFormats[CHOOSE k \in has : \A j \in has : k <= j])
                   /\ UNCHANGED dropParsers
              ELSE IF "text/plain" \in data.formats
              THEN /\ dropParsers' = HandleTrackUrls(dropParsers, data.text)
                   /\ UNCHANGED tracksEmitted
              ELSE UNCHANGED dropVars
           /\ last' = Op("tracksFromMimeData", data.text, i, FALSE, 0)
    /\ Len(dropParsers') + Len(tracksEmitted') <= MaxRoutes
    /\ result' = FALSE
    /\ UNCHANGED << handlerVars, isPlaying, clipboard, cacheVars >>

\* expandedUrls joining the urls with a space
ExpandedUrls_JoinSpace(ps, urls) == HandleTrackUrls(ps, Join(urls, " "))

\* GlobalActionManager::expandedUrls: the parsers after the call
ExpandedUrls(ps, urls) == HandleTrackUrls(ps, Join(urls, "\n"))

\* the ShortenedLinkParser i emits urls( urls ), once: the signal is
\* connected to expandedUrls
ShortenedLinkParserUrls(i, urls) ==
    /\ i \in 1..Len(dropParsers)
    /\ dropParsers[i].kind = "shortened"
    /\ ~dropParsers[i].done
    /\ dropParsers' = ExpandedUrls([dropParsers EXCEPT ![i].done = TRUE], urls)
    /\ Len(dropParsers') + Len(tracksEmitted) <= MaxRoutes
    /\ last' = Op("expandedUrls", Join(urls, "\n"), i, FALSE, 0)
    /\ result' = FALSE
    /\ UNCHANGED << handlerVars, isPlaying, clipboard, tracksEmitted, cacheVars >>

\* GlobalActionManager::acceptsMimeData
AcceptsMimeData(data, tracksOnly) ==
    LET plain == "text/plain" \in data.formats
    IN  \/ \E f \in { "application/tomahawk.query.list",
                       "application/tomahawk.plentry.list",
                       "application/tomahawk.result.list",
                       "application/tomahawk.metadata.album",
                       "application/tomahawk.metadata.artist" } : f \in data.formats
        \/ /\ plain
           /\ Contains(data.text, "spotify")
           /\ tracksOnly => Contains(data.text, "track")
        \/ /\ plain
           /\ Contains(data.text, "rdio.com")
           /\ tracksOnly => Contains(data.text, "track")
        \/ plain /\ Contains(data.text, "bit.ly")
        \/ plain /\ Contains(data.text, "j.mp")
        \/ plain /\ Contains(data.text, "t.co")
        \/ plain /\ Contains(data.text, "rd.io")

(***************************************************************************)
(* Bookmarks: handleBookmarkCommand, bookmarkPlaylistCreated, doBookmark   *)
(* and showPlaylist.  bookmarks holds the state of the local collection's  *)
(* bookmarks playlist: whether bookmarksPlaylist() is non-null (exists),   *)
(* the createBookmarksPlaylist() calls not yet answered (creating), its    *)
(* entries, the connections of its revisionLoaded to showPlaylist, the     *)
(* calls of ViewManager::show for it (shows), and whether the Q_ASSERT of  *)
(* bookmarkPlaylistCreated failed.                                         *)
(***************************************************************************)
\* the commands given to handleBookmarkCommand
BookmarkCommands ==
    { "tomahawk://bookmark/track?title=T&artist=A",
      "tomahawk://bookmark/track?title=U&url=http://h/u.mp3",
      "tomahawk://bookmark/album?title=T", "tomahawk://bookmark" }

\* GlobalActionManager::doBookmark on the playlist in state b
DoBookmark(b, q) ==
    /\ bookmarks' = [b EXCEPT !.entries = Append(@, q), !.revisionConnections = @ + 1]
    /\ m_toShow' = TRUE
    /\ m_waitingToBookmark' = Null

\* GlobalActionManager::handleBookmarkCommand
HandleBookmarkCommand(url) ==
    /\ ~bookmarks.assertFailed
    /\ LET u == DecodedOf(url).u
           parts == Parts(u)
           f == TrackFields(QueryItems(u), NoFields)
           q == NextQuery
       IN  IF parts # << >> /\ parts[1] = "track" THEN
               /\ Len(queries) < MaxQueries
               /\ queries' = Append(queries,
                      NewQuery(f.artist, f.title, f.album, f.urlStr, "bookmark"))
               /\ inPipeline' = inPipeline \cup { q }
               /\ IF ~bookmarks.exists
                  THEN /\ m_waitingToBookmark' = q
                       /\ bookmarks' = [bookmarks EXCEPT !.creating = @ + 1,
                                                         !.signalConnected = TRUE]
                       /\ UNCHANGED m_toShow
                  ELSE DoBookmark(bookmarks, q)
               /\ result' = TRUE
               /\ last' = Op("handleBookmarkCommand", url, q, FALSE, 1)
               /\ UNCHANGED << coordVars, playable, finished, queue, parsers,
                               routerVars >>
           ELSE /\ Reject
                /\ last' = Op("handleBookmarkCommand", url, Null, FALSE, 0)
    /\ UNCHANGED << isPlaying, clipboard, dropVars, cacheVars >>

\* the local collection answers a createBookmarksPlaylist() call: the
\* playlist exists and bookmarkPlaylistCreated is emitted; the slot
\* GlobalActionManager::bookmarkPlaylistCreated runs if connected
BookmarkPlaylistCreated ==
    /\ ~bookmarks.assertFailed
    /\ bookmarks.creating > 0
    /\ LET b == [bookmarks EXCEPT !.creating = @ - 1, !.exists = TRUE]
       IN  IF ~b.signalConnected THEN bookmarks' = b /\ UNCHANGED << m_toShow, m_waitingToBookmark >>
           ELSE IF m_waitingToBookmark = Null
           THEN /\ bookmarks' = [b EXCEPT !.assertFailed = TRUE]
                /\ UNCHANGED << m_toShow, m_waitingToBookmark >>
           ELSE DoBookmark(b, m_waitingToBookmark)
    /\ last' = Op("bookmarkPlaylistCreated", "", m_waitingToBookmark, FALSE, 0)
    /\ result' = FALSE
    /\ UNCHANGED << coordVars, queryVars, isPlaying, queue, parsers, routerVars,
                    clipboard, dropVars, cacheVars >>

\* showPlaylist leaving m_toShow as it is
ShowPlaylist_NoClear(st) ==
    IF ~st.toShow THEN st
    ELSE [ toShow |-> TRUE, shows |-> st.shows + 1, shown |-> "bookmarks" ]

\* GlobalActionManager::showPlaylist, run on st = [ toShow: m_toShow,
\* shows: the calls of ViewManager::show, shown: the page of the view ]
ShowPlaylist(st) ==
    IF ~st.toShow THEN st
    ELSE [ toShow |-> FALSE, shows |-> st.shows + 1, shown |-> "bookmarks" ]

\* the signal runs the slot once per connection
RECURSIVE EmitRevisionLoaded(_, _)
EmitRevisionLoaded(st, n) ==
    IF n = 0 THEN st ELSE EmitRevisionLoaded(ShowPlaylist(st), n - 1)

\* the bookmarks playlist emits revisionLoaded
RevisionLoaded ==
    /\ ~bookmarks.assertFailed
    /\ bookmarks.exists
    /\ bookmarks.shows < MaxQueries
    /\ LET st == EmitRevisionLoaded([ toShow |-> m_toShow, shows |-> bookmarks.shows,
                                      shown |-> view.shown ],
                                    bookmarks.revisionConnections)
       IN  /\ m_toShow' = st.toShow
           /\ bookmarks' = [bookmarks EXCEPT !.shows = st.shows]
           /\ view' = [view EXCEPT !.shown = st.shown]
    /\ last' = Op("revisionLoaded", "", Null, FALSE, 0)
    /\ result' = FALSE
    /\ UNCHANGED << coordVars, queryVars, isPlaying, queue, parsers, loaders,
                    playlists, m_waitingToBookmark, clipboard, dropVars, cacheVars >>

(***************************************************************************)
(* TomahawkCache.  cached_settings is a function from the ( identifier,    *)
(* key ) pairs that are stored to their CacheData; the settings file of a  *)
(* client holds the pairs of its identifier.  An invalid QVariant is "".   *)
(***************************************************************************)
MaxTime == 3

\* the ( identifier, key ) pairs the clients use
CacheEntries == { << "a", "k" >>, << "a", "l" >>, << "b", "k" >> }

\* TomahawkCache::addClient
AddClient(clients, identifier) ==
    IF \E i \in 1..Len(clients) : clients[i] = identifier THEN clients
    ELSE Append(clients, identifier)

\* TomahawkCache::removeClient
RemoveClient(clients, identifier) ==
    LET hits == { i \in 1..Len(clients) : clients[i] = identifier }
    IN  IF hits = {} THEN clients
        ELSE LET at == CHOOSE i \in hits : \A j \in hits : i <= j
             IN  SubSeq(clients, 1, at - 1) \o SubSeq(clients, at + 1, Len(clients))

\* TomahawkCache::putData
PutData(identifier, maxAge, key, value) ==
    \* QSettings::setValue of CacheData( maxAge, value )
    LET SetValue(settings) ==
            [ x \in DOMAIN settings \cup { << identifier, key >> } |->
                  IF x = << identifier, key >>
                  THEN [ maxAge |-> maxAge, data |-> value ] ELSE settings[x] ]
    IN
    /\ m_cacheManifest' = AddClient(m_cacheManifest, identifier)
    /\ cached_settings' = SetValue(cached_settings)
    /\ latestPut' = SetValue(latestPut)
    /\ got' = [ identifier |-> identifier, key |-> key, data |-> "" ]
    /\ last' = Op("putData", "", Null, FALSE, 0)
    /\ result' = FALSE
    /\ UNCHANGED << handlerVars, isPlaying, clipboard, dropVars, now >>

\* getData that takes an entry for stale when its maxAge is the current time
GetData_StaleAtEqual(identifier, key) ==
    LET e == << identifier, key >>
    IN  /\ IF e \in DOMAIN cached_settings
           THEN IF cached_settings[e].maxAge <= now
                THEN /\ cached_settings' = [ x \in DOMAIN cached_settings \ { e } |->
                                                cached_settings[x] ]
                     /\ got' = [ identifier |-> identifier, key |-> key, data |-> "" ]
                ELSE /\ got' = [ identifier |-> identifier, key |-> key,
                                 data |-> cached_settings[e].data ]
                     /\ UNCHANGED cached_settings
           ELSE /\ got' = [ identifier |-> identifier, key |-> key, data |-> "" ]
                /\ UNCHANGED cached_settings
        /\ last' = Op("getData", "", Null, FALSE, 0)
        /\ result' = FALSE
        /\ UNCHANGED << handlerVars, isPlaying, clipboard, dropVars, m_cacheManifest,
                        now, latestPut >>

\* TomahawkCache::getData
GetData(identifier, key) ==
    LET e == << identifier, key >>
    IN  /\ IF e \in DOMAIN cached_settings
           THEN IF cached_settings[e].maxAge < now
                THEN /\ cached_settings' = [ x \in DOMAIN cached_settings \ { e } |->
                                                cached_settings[x] ]
                     /\ got' = [ identifier |-> identifier, key |-> key, data |-> "" ]
                ELSE /\ got' = [ identifier |-> identifier, key |-> key,
                                 data |-> cached_settings[e].data ]
                     /\ UNCHANGED cached_settings
           ELSE /\ got' = [ identifier |-> identifier, key |-> key, data |-> "" ]
                /\ UNCHANGED cached_settings
        /\ last' = Op("getData", "", Null, FALSE, 0)
        /\ result' = FALSE
        /\ UNCHANGED << handlerVars, isPlaying, clipboard, dropVars, m_cacheManifest,
                        now, latestPut >>

\* TomahawkCache::pruneTimerFired: the stale entries of the clients of the
\* manifest are removed, and so are the clients left without entries
RECURSIVE PruneClients(_, _, _)
PruneClients(clients, todo, settings) ==
    IF todo = << >> THEN clients
    ELSE PruneClients(IF \E e \in DOMAIN settings : e[1] = Head(todo) THEN clients
                      ELSE RemoveClient(clients, Head(todo)),
                      Tail(todo), settings)

PruneTimerFired ==
    LET listed == { m_cacheManifest[i] : i \in 1..Len(m_cacheManifest) }
        stale == { e \in DOMAIN cached_settings :
                       e[1] \in listed /\ cached_settings[e].maxAge < now }
        kept == [ x \in DOMAIN cached_settings \ stale |-> cached_settings[x] ]
    IN  /\ cached_settings' = kept
        /\ m_cacheManifest' = PruneClients(m_cacheManifest, m_cacheManifest, kept)
        /\ got' = [ identifier |-> "", key |-> "", data |-> "" ]
        /\ last' = Op("pruneTimerFired", "", Null, FALSE, 0)
        /\ result' = FALSE
        /\ UNCHANGED << handlerVars, isPlaying, clipboard, dropVars, now, latestPut >>

\* QDateTime::currentMSecsSinceEpoch() grows
Tick ==
    /\ now < MaxTime
    /\ now' = now + 1
    /\ last' = Op("tick", "", Null, FALSE, 0)
    /\ result' = FALSE
    /\ UNCHANGED << handlerVars, isPlaying, clipboard, dropVars, m_cacheManifest,
                    cached_settings, latestPut, got >>

(***************************************************************************)
(* Spec: the coordination of play, open and queue commands with the        *)
(* resolution pipeline.                                                    *)
(***************************************************************************)
Next ==
    \/ \E url \in Links : ParseTomahawkLink(url)
    \/ \E i \in 1..MaxObjects : SpotifyTrack(i)
    \/ \E q \in QueryIds : ResolvingFinished(q)
    \/ \E q \in QueryIds : PipelineResults(q)
    \/ \E q \in QueryIds : PipelineForget(q)
    \/ EngineStateChanged

Spec == Init /\ [][Next]_vars

(***************************************************************************)
(* SpecShare: tracks and dynamic playlists come from links, are copied to  *)
(* the clipboard as links, and a text of the clipboard is given to         *)
(* parseTomahawkLink, as it is or with the origin of the links replaced by *)
(* the scheme.                                                             *)
(***************************************************************************)
\* the text of a link with its origin replaced by the scheme of the links
Rebase(text) == "tomahawk://" \o Mid(text, Len(Hostname) + 1)

\* the text of the clipboard is given to parseTomahawkLink
ParseClipboard ==
    /\ clipboard # ""
    /\ \E url \in { clipboard, Rebase(clipboard) } : ParseTomahawkLink(url)

NextShare ==
    \/ \E url \in ShareLinks : ParseTomahawkLink(url)
    \/ \E q \in QueryIds : CopyToClipboard(q)
    \/ \E i \in 1..MaxPlaylists : CopyPlaylistToClipboard(i)
    \/ ParseClipboard

SpecShare == Init /\ [][NextShare]_vars

(***************************************************************************)
(* SpecStation: station and autoplaylist commands.                         *)
(***************************************************************************)
NextStation == \E url \in SpecStationLinks : ParseTomahawkLink(url)

SpecStation == Init /\ [][NextStation]_vars

(***************************************************************************)
(* SpecRouter: playlist, queue, open, play and station commands and what   *)
(* parseTomahawkLink returns for them.                                     *)
(***************************************************************************)
NextRouter == \E url \in SpecRouterLinks : ParseTomahawkLink(url)

SpecRouter == Init /\ [][NextRouter]_vars

(***************************************************************************)
(* SpecGrammar: the texts parseTomahawkLink accepts and the command type   *)
(* it finds in them.                                                       *)
(***************************************************************************)
NextGrammar == \E url \in SpecGrammarLinks : ParseTomahawkLink(url)

SpecGrammar == Init /\ [][NextGrammar]_vars

(***************************************************************************)
(* SpecDrop: data is dropped or pasted, and the parsers of shortened links *)
(* answer.                                                                 *)
(***************************************************************************)
NextDrop ==
    \/ \E i \in 1..Len(MimePayloads) : TracksFromMimeData(i)
    \/ \E i \in 1..MaxRoutes : \E urls \in Expansions : ShortenedLinkParserUrls(i, urls)

SpecDrop == Init /\ [][NextDrop]_vars

(***************************************************************************)
(* SpecBookmark: bookmark commands, the answers of the local collection    *)
(* and the revisions of the bookmarks playlist.                            *)
(***************************************************************************)
NextBookmark ==
    \/ \E url \in BookmarkCommands : HandleBookmarkCommand(url)
    \/ BookmarkPlaylistCreated
    \/ RevisionLoaded

SpecBookmark == Init /\ [][NextBookmark]_vars

(***************************************************************************)
(* SpecCache: clients put and get data, the prune timer fires and time     *)
(* passes.                                                                 *)
(***************************************************************************)
NextCache ==
    \/ \E e \in CacheEntries, maxAge \in 1..(MaxTime - 1), value \in { "v", "w" } :
           PutData(e[1], maxAge, e[2], value)
    \/ \E e \in CacheEntries : GetData(e[1], e[2])
    \/ PruneTimerFired
    \/ Tick

SpecCache == Init /\ [][NextCache]_vars

(***************************************************************************)
(* The requests for m_waitingToPlay.                                       *)
(***************************************************************************)
\* q was built for a Play request (handlePlayCommand, spotifyToPlay)
PlayRequest(q) == queries[q].by \in { "play", "spotifyToPlay" }

\* q was built for an OpenAndMaybePlay request (handleOpenTrack)
OpenRequest(q) == queries[q].by \in { "open", "handleOpenTrack" }

\* q was registered: connected to waitingForResolved and put in the slot
Registered(q) == q \in 1..Len(queries) /\ connected[q] > 0

\* a request was registered after that of q
Superseded(q) == \E r \in 1..Len(queries) : r > q /\ Registered(r)

\* play() was called for the completion of q
Played(q) == \E i \in 1..Len(playCalls) : playCalls[i] = q

(***************************************************************************)
(* The claims.                                                             *)
(***************************************************************************)
\* the step delivered the completion (resolvingFinished) of a query
Delivered == last.op = "resolvingFinished"

\* C1: once a Play request q2 was registered after the Play request q1, a
\* completion delivered from q1 never calls AudioEngine::play(), whether or
\* not q1 is playable
C1_SupersededNeverPlays ==
    (/\ Delivered
     /\ PlayRequest(last.sender)
     /\ \E q2 \in 1..Len(queries) : q2 > last.sender /\ PlayRequest(q2))
    => ~last.played

\* a playable, superseded Play request completes after its successor was
\* registered, and nothing is played
C1_Witness ==
    /\ Delivered
    /\ PlayRequest(last.sender)
    /\ last.sender \in playable
    /\ \E q2 \in 1..Len(queries) : q2 > last.sender /\ PlayRequest(q2)
    /\ playCalls = << >>

\* C2: when the completion of the latest registered Play request is
\* delivered while the request is playable, playback is started for it, also
\* when completions of superseded requests were delivered before
C2_LatestStartsPlayback ==
    (/\ Delivered
     /\ PlayRequest(last.sender)
     /\ Registered(last.sender)
     /\ ~Superseded(last.sender)
     /\ last.sender \in playable)
    => Played(last.sender)

\* C3: a completion whose sender is not the registered query is a no-op: the
\* slot m_waitingToPlay and the rest of the coordinator state stay as they are
C3_StaleCompletionIsNoOp ==
    [][ (/\ last'.op = "resolvingFinished"
         /\ connected[last'.sender] > 0
         /\ last'.sender # m_waitingToPlay)
        => UNCHANGED << m_waitingToPlay, playCalls, connected, queue >> ]_vars

\* C4: at most one query per request kind is subscribed to the completion
\* signal
C4_OneSubscriptionPerKind ==
    /\ Cardinality({ q \in Subscribed : PlayRequest(q) }) <= 1
    /\ Cardinality({ q \in Subscribed : OpenRequest(q) }) <= 1

\* the step built the query q for a request that handler by made
Built(q, by) == Len(queries') = Len(queries) + 1 /\ q = Len(queries') /\ queries'[q].by \in by

\* C5 as stated: a registration for OpenAndMaybePlay leaves a pending Play
\* request in its slot, and a registration for Play leaves a pending
\* OpenAndMaybePlay request in its slot
C5_SlotsIndependent ==
    [][ \A q \in QueryIds :
          /\ (/\ Built(q, { "open", "handleOpenTrack" })
              /\ m_waitingToPlay # Null /\ PlayRequest(m_waitingToPlay))
             => m_waitingToPlay' = m_waitingToPlay
          /\ (/\ Built(q, { "play", "spotifyToPlay" })
              /\ m_waitingToPlay # Null /\ OpenRequest(m_waitingToPlay))
             => m_waitingToPlay' = m_waitingToPlay ]_vars

\* C5 amended: Play and OpenAndMaybePlay share the slot m_waitingToPlay: a
\* registration for OpenAndMaybePlay (handleOpenTrack while the engine is not
\* playing) and a registration for Play each put their query in the slot,
\* whatever was pending there; with the engine playing handleOpenTrack leaves
\* the slot; the slot m_waitingToBookmark is left by both
C5_SharedSlot ==
    [][ \A q \in QueryIds :
          /\ (Built(q, { "open", "handleOpenTrack" }) /\ ~isPlaying) => m_waitingToPlay' = q
          /\ (Built(q, { "open", "handleOpenTrack" }) /\ isPlaying)
             => m_waitingToPlay' = m_waitingToPlay
          /\ Built(q, { "play", "spotifyToPlay" }) => m_waitingToPlay' = q
          /\ Built(q, { "open", "handleOpenTrack", "play", "spotifyToPlay" })
             => m_waitingToBookmark' = m_waitingToBookmark ]_vars

\* an open command has replaced a Play request that was pending and whose
\* completion is still to come
C5_Witness ==
    /\ last.op = "parseTomahawkLink" /\ last.url = OpenTrackLink
    /\ Len(queries) = 2
    /\ PlayRequest(1) /\ Registered(1) /\ 1 \notin finished
    /\ m_waitingToPlay = 2

\* C6: when the completion of the registered query is delivered
\* and the query is not playable, the slot is cleared and play() is not called
C6_UnplayableClearsSlot ==
    [][ (/\ last'.op = "resolvingFinished"
         /\ connected[last'.sender] > 0
         /\ last'.sender = m_waitingToPlay
         /\ last'.sender \notin playable)
        => (m_waitingToPlay' = Null /\ playCalls' = playCalls) ]_vars

\* C7: the link play/track?artist=A&title=T builds exactly one query, which
\* is registered as the pending Play request and handed to the pipeline; and
\* when this is the one query of the run and its completion has been
\* delivered with the query playable, play() has been called exactly once
C7_PlayLinkEndToEnd ==
    /\ (last.op = "parseTomahawkLink" /\ last.url = PlayLink)
       => /\ result
          /\ last.built = 1
          /\ queries[Len(queries)] = NewQuery("A", "T", "", "", "play")
          /\ m_waitingToPlay = Len(queries)
          /\ connected[Len(queries)] = 1
          /\ Len(queries) \in inPipeline
    /\ (/\ Delivered
        /\ Len(queries) = 1 /\ queries[1].by = "play"
        /\ 1 \in playable)
       => playCalls = << 1 >>

\* the one query of the run completed twice while playable: the first
\* completion started playback, the second did not
C7_Witness ==
    /\ Delivered /\ ~last.played
    /\ Len(queries) = 1 /\ queries[1] = NewQuery("A", "T", "", "", "play")
    /\ 1 \in playable
    /\ playCalls = << 1 >>

\* C8: a bookmark link is handled by the Bookmark handler: the query is
\* appended to the bookmarks playlist (or kept in m_waitingToBookmark until
\* the playlist exists) and is not registered as the pending Play request
C8_BookmarkLinkBookmarks ==
    (last.op = "parseTomahawkLink" /\ last.url = BookmarkLink /\ last.built = 1)
    => /\ m_waitingToPlay # Len(queries)
       /\ \/ m_waitingToBookmark = Len(queries)
          \/ \E i \in 1..Len(bookmarks.entries) : bookmarks.entries[i] = Len(queries)

\* the step gave parseTomahawkLink the text url
Parsed(url) == last.op = "parseTomahawkLink" /\ last.url = url

\* the queries whose copyToClipboard text is the text of the clipboard
CopiedTracks ==
    { q \in 1..Len(queries) :
        q \notin playable /\ ClipboardData(OpenLinkFromQuery(q)) = clipboard }

\* the echonest playlists whose copyPlaylistToClipboard text is the text of
\* the clipboard
CopiedPlaylists ==
    { i \in 1..Len(playlists) :
        /\ playlists[i].mode \in { "OnDemand", "Static" }
        /\ playlists[i].type = "echonest"
        /\ ClipboardData(PlaylistLink(playlists[i])) = clipboard }

NonEmptyTrack(q) == queries[q].title # "" \/ queries[q].artist # "" \/ queries[q].album # ""

\* parseTomahawkLink accepted url as an open/track/ link and built the query
\* of the title, artist and album of q
DecodesToTrack(url, q) ==
    /\ result
    /\ DecodedOf(url).cmdType = "open"
    /\ Parts(DecodedOf(url).u) = << "track", "" >>
    /\ last.built = 1
    /\ queries[Len(queries)].title = queries[q].title
    /\ queries[Len(queries)].artist = queries[q].artist
    /\ queries[Len(queries)].album = queries[q].album

\* parseTomahawkLink accepted url as a station/create/ or
\* autoplaylist/create/ link and built the playlist of the mode, title, type
\* and controls of playlist i
DecodesToPlaylist(url, i) ==
    /\ result
    /\ DecodedOf(url).cmdType
         = (IF playlists[i].mode = "OnDemand" THEN "station" ELSE "autoplaylist")
    /\ Parts(DecodedOf(url).u) = << "create", "" >>
    /\ playlists[Len(playlists)].mode = playlists[i].mode
    /\ playlists[Len(playlists)].title = playlists[i].title
    /\ playlists[Len(playlists)].type = playlists[i].type
    /\ playlists[Len(playlists)].controls = playlists[i].controls

\* C9 as stated: the link text copied for a track or for an echonest station
\* or autoplaylist is accepted by parseTomahawkLink and decodes to the same
\* category, path segments and parameter values
C9_CopiedLinkRoundTrip ==
    (clipboard # "" /\ Parsed(clipboard))
    => /\ \A q \in CopiedTracks : DecodesToTrack(clipboard, q)
       /\ \A i \in CopiedPlaylists : DecodesToPlaylist(clipboard, i)

\* C9 amended: the link text copied for a track with a non-empty title,
\* artist or album, or for an echonest station or autoplaylist whose controls
\* loadDynamicPlaylist built, is accepted by parseTomahawkLink once its origin
\* http://toma.hk/ is replaced by the scheme tomahawk://, and then decodes to
\* the same category, path segments and parameter values; the text as copied
\* is rejected
C9_RebasedLinkRoundTrip ==
    /\ (clipboard # "" /\ Parsed(Rebase(clipboard)))
       => /\ \A q \in CopiedTracks :
               NonEmptyTrack(q) => DecodesToTrack(Rebase(clipboard), q)
          /\ \A i \in CopiedPlaylists : DecodesToPlaylist(Rebase(clipboard), i)
    /\ (clipboard # "" /\ Parsed(clipboard)) => ~result

\* the link copied for a track whose title holds a quote, a space and the
\* delimiters of a query was given to parseTomahawkLink with the scheme for
\* its origin
C9_Witness ==
    /\ clipboard # "" /\ Parsed(Rebase(clipboard))
    /\ result
    /\ Len(queries) = 2
    /\ 1 \in CopiedTracks
    /\ queries[1].title = "it's a&b=c"
    /\ queries[2].title = "it's a&b=c"

\* the query items of a station link that are not its title and type
FilterItems(items) ==
    SelectSeq(items, LAMBDA item : item[1] \notin { "title", "type" })

\* C10: for the controls loadDynamicPlaylist builds from the filter
\* parameters of a link, copyPlaylistToClipboard emits one parameter per
\* control, with the names (the suffix _max included), the values and the
\* order of the parameters of the link
C10_EncodingInvertsDecoding ==
    \A url \in StationLinks :
        (Parsed(url) /\ result)
        => EncodeControls(playlists[Len(playlists)].controls)
             = FilterItems(QueryItems(DecodedOf(url).u))

\* a link with lower and upper bounds was decoded to a playlist with a
\* control for each of its fourteen filter parameters
C10_Witness ==
    /\ Parsed(FilterLink1) /\ result
    /\ Len(playlists[Len(playlists)].controls) = 14
    /\ EncodeControls(playlists[Len(playlists)].controls)[14] = << "energy_max", "14" >>

\* the constant of PlaylistParam a control's match() holds
ParamName(c) == PlaylistParam[c.match + 1]

\* the bound a ranged control sets: Upper for a Max... constant, Lower for a
\* Min... constant
Bound(c) ==
    IF Contains(ParamName(c), "Max") THEN "Upper"
    ELSE IF Contains(ParamName(c), "Min") THEN "Lower"
    ELSE "None"

\* the name of a filter parameter without the suffix _max
StripMax(name) ==
    IF EndsWith(name, "_max") THEN SubSeq(name, 1, Len(name) - 4) ELSE name

\* the playlist that the step built from url has one control per filter
\* parameter of url, in their order, each with the value and the attribute
\* of its parameter, with bound ofMax for a parameter with the suffix _max
\* and bound ofPlain for one without
RangedControls(url, ofMax, ofPlain) ==
    LET cs  == playlists[Len(playlists)].controls
        its == FilterItems(QueryItems(DecodedOf(url).u))
    IN  /\ Len(cs) = Len(its)
        /\ \A i \in 1..Len(its) :
             /\ cs[i].input = its[i][2]
             /\ Replace(ToLower(cs[i].selectedType), " ", "_") = StripMax(its[i][1])
             /\ Bound(cs[i]) = (IF EndsWith(its[i][1], "_max") THEN ofMax ELSE ofPlain)

\* C11 as stated: for danceability, energy, latitude and longitude a
\* parameter with the suffix _max yields a control with bound Lower and the
\* parameter without the suffix a control with bound Upper;
\* danceability_max=0.2 yields exactly one control, with bound Lower
C11_InvertedPolarity ==
    \A url \in InvertedLinks :
        (Parsed(url) /\ result) => RangedControls(url, "Lower", "Upper")

\* C11 amended: for danceability, energy, latitude and longitude, as for the
\* other ranged attributes, a parameter with the suffix _max yields a control
\* with bound Upper (match Max...) and the parameter without the suffix a
\* control with bound Lower (match Min...); danceability_max=0.2 yields
\* exactly one control, with bound Upper (MaxDanceability)
C11_SamePolarity ==
    \A url \in InvertedLinks :
        (Parsed(url) /\ result) => RangedControls(url, "Upper", "Lower")

\* danceability_max=0.2 was decoded to the one control of MaxDanceability
C11_Witness ==
    /\ Parsed(InvertedLink1) /\ result
    /\ playlists[Len(playlists)].controls
         = << Control("Danceability", "0.2", Param("MaxDanceability")) >>

\* C12: for tempo, duration, loudness, artist_familiarity, artist_hotttnesss
\* and song_hotttnesss the parameter without the suffix yields a control with
\* bound Lower and the parameter with the suffix _max a control with bound
\* Upper; duration=30&duration_max=120 yields exactly two duration controls,
\* Lower then Upper
C12_RegularPolarity ==
    \A url \in RegularLinks :
        (Parsed(url) /\ result) => RangedControls(url, "Upper", "Lower")

\* duration=30&duration_max=120 was decoded to the controls of MinDuration
\* and MaxDuration, in this order
C12_Witness ==
    /\ Parsed(RegularLink1) /\ result
    /\ playlists[Len(playlists)].controls
         = << Control("Duration", "30", Param("MinDuration")),
              Control("Duration", "120", Param("MaxDuration")) >>

\* C13: a parameter whose name is not of the vocabulary of the filter
\* parameters, also one that only begins with tempo or energy, produces no
\* control, and the station command is accepted
C13_UnknownParametersIgnored ==
    \A url \in { UnknownLink, PrefixLink } :
        Parsed(url) => (result /\ playlists[Len(playlists)].controls = << >>)

\* C15: an accepted station/create or autoplaylist/create command creates
\* one playlist and commits one revision, with the controls of all its
\* parameters, also when the link has no filter parameters; a command without
\* title or type, or with another subcommand, creates no playlist
C15_OneRevisionPerCommand ==
    [][ \A url \in SpecStationLinks :
          (last'.op = "parseTomahawkLink" /\ last'.url = url)
          => IF url \in RejectedStationLinks
             THEN ~result' /\ playlists' = playlists
             ELSE /\ result'
                  /\ Len(playlists') = Len(playlists) + 1
                  /\ SubSeq(playlists', 1, Len(playlists)) = playlists
                  /\ playlists'[Len(playlists')].revisions = 1
                  /\ playlists'[Len(playlists')].controls
                       = BuildControls(QueryItems(DecodedOf(url).u)) ]_vars

\* a station link without filter parameters was accepted and committed one
\* revision without controls
C15_Witness ==
    /\ Parsed(BareStationLink) /\ result
    /\ Len(playlists) = 1
    /\ playlists[1].revisions = 1
    /\ playlists[1].controls = << >>

\* C16: a station command builds an OnDemand playlist and commits it without
\* entries, an autoplaylist command builds a Static playlist and commits it
\* with its entries
C16_ModeByCategory ==
    \A url \in SpecStationLinks :
        (Parsed(url) /\ result)
        => LET pl == playlists[Len(playlists)]
           IN  /\ DecodedOf(url).cmdType = "station"
                  => (pl.mode = "OnDemand" /\ ~pl.entriesFixed)
               /\ DecodedOf(url).cmdType = "autoplaylist"
                  => (pl.mode = "Static" /\ pl.entriesFixed)

\* an autoplaylist link and a station link with the same parameters were
\* accepted
C16_Witness ==
    /\ Parsed(BareAutoPlaylistLink) /\ result
    /\ Len(playlists) = 2
    /\ playlists[1].mode = "OnDemand" /\ ~playlists[1].entriesFixed
    /\ playlists[1].controls = << >>
    /\ playlists[2].mode = "Static" /\ playlists[2].entriesFixed

\* C14: when a key occurs several times in a link, the value of its first
\* occurrence is used: the title of a play command, and the artist of a
\* station command, whose second artist= is dropped
C14_FirstOccurrenceWins ==
    /\ Parsed(DuplicatePlayLink) => queries[Len(queries)].title = "T"
    /\ (Parsed(DuplicateStationLink) /\ result)
       => playlists[Len(playlists)].controls
            = << Control("Artist", "A", ArtistTypeOf("ArtistRadioType")) >>

\* C17: playlist/import without xspf is rejected and starts no loader;
\* playlist/new without title is rejected and creates no playlist
C17_PlaylistCommandsRejected ==
    [][ (/\ last'.op = "parseTomahawkLink"
         /\ last'.url \in { ImportNoXspfLink, NewNoTitleLink })
        => (~result' /\ UNCHANGED << loaders, playlists, view >>) ]_vars

\* playlist/new without title was rejected after playlist/import with xspf
\* had started a loader
C17_Witness ==
    /\ Parsed(NewNoTitleLink) /\ ~result
    /\ Len(loaders) = 1
    /\ playlists = << >>
    /\ view.shown = "none"

\* C18: parseTomahawkLink returns true whenever a handler performed its
\* effect (import started, playlist created, query appended to the queue,
\* pending resolution registered); it returns false only for commands
\* rejected without effect
C18_ResultFaithful ==
    [][ (last'.op = "parseTomahawkLink" /\ ~result') => UNCHANGED handlerVars ]_vars

\* C19: a queue-add or open command with two url parameters and no title,
\* artist or album builds two queries, hands both to the pipeline and
\* appends both to the play queue, in the order of the link
C19_OneQueryPerUrl ==
    \A url \in { QueueUrlsLink, OpenUrlsLink } :
        Parsed(url)
        => /\ last.built = 2
           /\ Len(queue) >= 2
           /\ queue[Len(queue) - 1] = Len(queries) - 1
           /\ queue[Len(queue)] = Len(queries)
           /\ queries[Len(queries) - 1].resultHint = "http://h/a.mp3"
           /\ queries[Len(queries)].resultHint = "http://h/b.mp3"
           /\ { Len(queries) - 1, Len(queries) } \subseteq inPipeline

\* C20: when the completion of an open or queue request is delivered while
\* the engine is playing, play() is not called
C20_OpenPlaysOnlyIfIdle ==
    (Delivered /\ OpenRequest(last.sender) /\ isPlaying) => ~last.played

(***************************************************************************)
(* C21..C26: what parseTomahawkLink accepts.                               *)
(***************************************************************************)
\* C21: a play/track command with none of title, artist, album and without
\* a spotify link is rejected: parseTomahawkLink returns false, no query is
\* built, none is given to the Pipeline and m_waitingToPlay keeps its value.
C21_EmptyPlayRejected ==
    [][ (last'.op = "parseTomahawkLink" /\ last'.url \in { NoFieldsPlayLink, BarePlayLink })
        => (~result' /\ UNCHANGED << queries, inPipeline, m_waitingToPlay >>) ]_vars

\* the search fields a command carries
SearchFields(u) == { k \in { "artist", "album", "title" } : HasQueryItem(u, k) }

\* C22 as claimed: a search command is accepted exactly when one of artist,
\* album, title is present; a rejected command leaves the view alone.
C22_AcceptedIffPresent ==
    [][ \A url \in SearchLinks :
          (last'.op = "parseTomahawkLink" /\ last'.url = url)
          => /\ result' <=> (SearchFields(DecodedOf(url).u) # {})
             /\ ~result' => UNCHANGED view ]_vars

\* C22 as amended: a search command is accepted exactly when one of its
\* search fields has a non-empty value or two of them are present (the
\* values joined by spaces are not the empty text); a rejected command
\* leaves the view alone, an accepted one shows the super collection.
C22_AcceptedIffNonEmpty ==
    [][ \A url \in SearchLinks :
          (last'.op = "parseTomahawkLink" /\ last'.url = url)
          => LET u == DecodedOf(url).u
                 fields == SearchFields(u)
             IN  /\ result' <=> \/ \E k \in fields : QueryItemValue(u, k) # ""
                                \/ Cardinality(fields) >= 2
                 /\ ~result' => UNCHANGED view
                 /\ result' => view'.shown = "supercollection" /\ view'.filter # "" ]_vars

\* an empty search field was rejected after a search was shown, and the
\* view still shows that search
C22_Witness ==
    /\ Parsed(EmptySearchLink)
    /\ ~result
    /\ view = [ shown |-> "supercollection", filter |-> "L T" ]

\* C23: parseTomahawkLink accepts only texts that start with tomahawk://; a
\* text without the scheme, or with the scheme at a later position, is
\* rejected without effect.
C23_OnlySchemePrefix ==
    [][ (last'.op = "parseTomahawkLink" /\ ~StartsWith(last'.url, "tomahawk://"))
        => (~result' /\ UNCHANGED handlerVars) ]_vars

\* C24: a link without a path segment and with a query string is dispatched
\* to the handler of its category: tomahawk://search?artist=X is a search.
C24_BareCategoryDispatched ==
    Parsed(BareSearchLink)
    => (result /\ view = [ shown |-> "supercollection", filter |-> "X" ])

\* C25: tomahawk://load?xspf=<url> and tomahawk://load?jspf=<url> return
\* true and start the XSPF, respectively JSPF, loader on <url>.
C25_LegacyLoadAccepted ==
    [][ \A url \in LoadLinks :
          (last'.op = "parseTomahawkLink" /\ last'.url = url)
          => /\ result'
             /\ Len(loaders') = Len(loaders) + 1
             /\ loaders'[Len(loaders')].kind
                    = (IF url = LoadXspfLink THEN "xspf" ELSE "jspf") ]_vars

\* C26: a link whose command type is empty or unknown (load without xspf
\* and jspf included) is rejected: parseTomahawkLink returns false and no
\* handler changes the pending queries, the queue, the loaders, the
\* playlists or the view.
C26_UnknownTypeRejected ==
    [][ (last'.op = "parseTomahawkLink" /\ last'.url \in UnknownTypeLinks)
        => (~result' /\ UNCHANGED handlerVars) ]_vars

\* an unknown command type was rejected while a query waits to be played
C26_Witness ==
    /\ Parsed(UnknownTypeLink)
    /\ ~result
    /\ m_waitingToPlay = 1
    /\ Len(queries) = 1

(***************************************************************************)
(* C27..C29: dropped data and shortened links.                             *)
(***************************************************************************)
\* whether a text names one of the shorteners
IsShortener(text) ==
    \/ Contains(text, "bit.ly") \/ Contains(text, "j.mp")
    \/ Contains(text, "t.co") \/ Contains(text, "rd.io")

\* the parsers a step started
Started == SubSeq(dropParsers', Len(dropParsers) + 1, Len(dropParsers'))

\* C27: the expansion of shortened links is one level deep: when a
\* ShortenedLinkParser answers with a url of a shortener, no parser is
\* started for it, so no chain of expansions goes on.
C27_OneLevelOfExpansion ==
    [][ (last'.op = "expandedUrls" /\ IsShortener(last'.url)) => Started = << >> ]_vars

\* the urls of a text, one per line
Lines(text) == Split(text, "\n")

\* the streaming service of a list of urls that names one
ServiceOf(urls) ==
    IF \E k \in 1..Len(urls) : \/ Contains(urls[k], "open.spotify.com/track")
                               \/ Contains(urls[k], "spotify:track")
    THEN "spotify"
    ELSE IF \E k \in 1..Len(urls) : Contains(urls[k], "rdio.com") THEN "rdio"
    ELSE "none"

\* the lists of urls of a streaming service that the model expands to
StreamingLists == { urls \in Expansions : ServiceOf(urls) # "none" }

\* C28: when the urls a shortened link expands to are urls of a streaming
\* service, the step starts the parser of that service on exactly these
\* urls, and so does the step that is given the same urls as plain text.
C28_ExpansionSameAsDirect ==
    [][ \A urls \in StreamingLists :
          ( \/ last'.op = "expandedUrls" /\ last'.url = Join(urls, "\n")
            \/ /\ last'.op = "tracksFromMimeData"
               /\ MimePayloads[last'.sender].formats = { "text/plain" }
               /\ Lines(MimePayloads[last'.sender].text) = urls )
          => Started = << [ kind |-> ServiceOf(urls), tracks |-> urls, done |-> FALSE ] >>
      ]_vars

\* two spotify tracks were dropped as text and, later, were the answer of a
\* ShortenedLinkParser: the two SpotifyParsers have the same urls
C28_Witness ==
    /\ last.op = "expandedUrls"
    /\ Len(dropParsers) = 3
    /\ dropParsers[1] = DropParser("spotify", << SpotifyTrackUrl, SpotifyTrackUri >>)
    /\ dropParsers[2].kind = "shortened"
    /\ dropParsers[2].done
    /\ dropParsers[3] = dropParsers[1]

\* C29: dropped data takes at most one route, chosen by priority: the query
\* list, the result list, the album and the artist metadata before plain
\* text; in plain text the spotify track patterns, then rdio.com, then the
\* shorteners.
C29_FixedPriority ==
    [][ \A i \in 1..Len(MimePayloads) :
          (last'.op = "tracksFromMimeData" /\ last'.sender = i)
          => LET data == MimePayloads[i]
                 has == { k \in 1..Len(StructuredFormats) :
                            StructuredFormats[k] \in data.formats }
                 emitted == SubSeq(tracksEmitted', Len(tracksEmitted) + 1,
                                   Len(tracksEmitted'))
                 text == IF "text/plain" \in data.formats THEN data.text ELSE ""
                 service == ServiceOf(Lines(text))
             IN  /\ Len(Started) + Len(emitted) <= 1
                 /\ has # {}
                    => /\ Started = << >>
                       /\ Len(emitted) = 1
                       /\ \E k \in has : /\ emitted[1] = StructuredFormats[k]
                                         /\ \A j \in has : k <= j
                 /\ has = {}
                    => /\ emitted = << >>
                       /\ service # "none"
                          => Len(Started) = 1 /\ Started[1].kind = service
                       /\ (service = "none" /\ IsShortener(text))
                          => Len(Started) = 1 /\ Started[1].kind = "shortened"
                       /\ (service = "none" /\ ~IsShortener(text)) => Started = << >>
      ]_vars

\* plain text with a shortened link, an rdio link and a spotify track went
\* to the SpotifyParser alone
C29_Witness ==
    /\ last.op = "tracksFromMimeData"
    /\ last.sender = 6
    /\ tracksEmitted = << >>
    /\ dropParsers = << DropParser("spotify", << ShortUrl, RdioUrl, SpotifyTrackUri >>) >>

(***************************************************************************)
(* C30: sharing a playlist of another generator.                           *)
(***************************************************************************)
\* C30: copyPlaylistToClipboard of a playlist whose generator is not of
\* type echonest returns the empty text and leaves the clipboard as it was.
C30_ForeignGeneratorNotShared ==
    [][ ( /\ last'.op = "copyPlaylistToClipboard"
          /\ playlists[last'.sender].type # "echonest" )
        => (last'.url = "" /\ clipboard' = clipboard) ]_vars

\* a database station was shared after an echonest playlist: the clipboard
\* still holds the link of the echonest playlist
C30_Witness ==
    /\ last.op = "copyPlaylistToClipboard"
    /\ playlists[last.sender].type = "database"
    /\ last.url = ""
    /\ \E i \in 1..Len(playlists) :
          /\ playlists[i].type = "echonest"
          /\ clipboard = ClipboardData(PlaylistLink(playlists[i]))

(***************************************************************************)
(* C31..C36.                                                               *)
(***************************************************************************)
\* C31: the text copyToClipboard and copyPlaylistToClipboard give the
\* clipboard never holds a single quote: each one of the encoded link is
\* replaced by %27.
C31_NoQuoteInClipboard == ~Contains(clipboard, "'")

\* a track whose title holds a single quote was copied
C31_Witness ==
    /\ last.op = "copyToClipboard"
    /\ Contains(queries[last.sender].title, "'")
    /\ Contains(clipboard, "it%27s")

\* C33: handleOpenTrack appends the query to the play queue and shows the
\* queue in the call itself, before a completion of the query is delivered;
\* it registers the query as the one waited for only if the engine is not
\* playing then, and leaves the slot and the connections alone otherwise.
C33_QueuedAtOnce ==
    [][ (last'.op = "parseTomahawkLink" /\ last'.url = OpenTrackLink)
        => LET q == Len(queries')
           IN  /\ Len(queries') = Len(queries) + 1
               /\ queue' = Append(queue, q)
               /\ view'.shown = "queue"
               /\ q \notin finished'
               /\ IF isPlaying
                  THEN UNCHANGED << m_waitingToPlay, connected >>
                  ELSE /\ m_waitingToPlay' = q
                       /\ connected' = [connected EXCEPT ![q] = 1] ]_vars

\* a track was opened while the engine played and a play request waited:
\* the track is in the queue and the play request still waits
C33_Witness ==
    /\ Parsed(OpenTrackLink)
    /\ isPlaying
    /\ Len(queries) = 2
    /\ queue = << 2 >>
    /\ m_waitingToPlay = 1
    /\ connected[2] = 0

\* C34: every collection command and every playlist/add command is
\* rejected and changes neither the playlists, nor the play queue, nor the
\* slots, whatever its parameters are.
C34_UnimplementedRejected ==
    [][ (last'.op = "parseTomahawkLink" /\ last'.url \in UnimplementedLinks)
        => (~result' /\ UNCHANGED handlerVars) ]_vars

\* playlist/add with xspf and title was rejected after a playlist was made
C34_Witness ==
    /\ Parsed(PlaylistAddLink)
    /\ ~result
    /\ Len(playlists) = 1
    /\ loaders = << >>

\* C35: an open command and a queue/add command with the same parameters
\* have the same effects and the same result: for title=T&artist=A both
\* return true, resolve one query for T by A, append it to the play queue
\* and register it if the engine is not playing.
C35_OpenSameAsQueueAdd ==
    [][ \A k \in 1..2 :
          (last'.op = "parseTomahawkLink" /\ last'.url = OpenQueuePair[k])
          => LET q == Len(queries')
             IN  /\ result'
                 /\ Len(queries') = Len(queries) + 1
                 /\ queries'[q].title = "T" /\ queries'[q].artist = "A"
                 /\ inPipeline' = inPipeline \cup { q }
                 /\ queue' = Append(queue, q)
                 /\ ~isPlaying => m_waitingToPlay' = q ]_vars

\* C36: for one query AudioEngine::play() is called at most once, however
\* often its resolvingFinished is delivered: the call that plays empties
\* m_waitingToPlay, and a later completion of the query plays nothing.
C36_PlayedAtMostOnce ==
    /\ \A q \in QueryIds : Cardinality({ i \in 1..Len(playCalls) : playCalls[i] = q }) <= 1
    /\ (Delivered /\ last.played) => m_waitingToPlay = Null

\* a query that was played, and is still playable, completed once more
C36_Witness ==
    /\ Delivered
    /\ ~last.played
    /\ last.sender \in playable
    /\ playCalls = << last.sender >>

(***************************************************************************)
(* C32, C37, C38: bookmarks.  C39: accepted and handled data.              *)
(***************************************************************************)
\* how often q is an entry of the bookmarks playlist
Bookmarked(q) == Cardinality({ i \in 1..Len(bookmarks.entries) : bookmarks.entries[i] = q })

\* C32: every accepted bookmark command gets exactly one entry for its
\* query in the bookmarks playlist: at once when the playlist exists, and
\* after bookmarkPlaylistCreated otherwise, until when the query waits in
\* m_waitingToBookmark; also when several commands come before the
\* playlist is created.
C32_EveryBookmarkAppended ==
    \A q \in 1..Len(queries) :
        queries[q].by = "bookmark"
        => \/ Bookmarked(q) = 1
           \/ Bookmarked(q) = 0 /\ m_waitingToBookmark = q /\ bookmarks.creating > 0

\* C37: the Q_ASSERT of bookmarkPlaylistCreated never fails: whenever the
\* signal is delivered, m_waitingToBookmark is non-null.
C37_AssertionHolds == ~bookmarks.assertFailed

\* C38: a delivery of revisionLoaded shows the bookmarks playlist if and
\* only if m_toShow is set, once, however many connections to showPlaylist
\* there are, and leaves m_toShow cleared: the playlist is shown at most
\* once per doBookmark.
C38_ShownOncePerBookmark ==
    [][ last'.op = "revisionLoaded"
        => /\ ~m_toShow'
           /\ bookmarks'.shows = bookmarks.shows + (IF m_toShow THEN 1 ELSE 0)
           /\ m_toShow => view'.shown = "bookmarks"
           /\ bookmarks'.shows <= Len(bookmarks'.entries) ]_vars

\* two bookmarks were made, revisionLoaded is connected twice to
\* showPlaylist, and its delivery showed the playlist once
C38_Witness ==
    /\ last.op = "revisionLoaded"
    /\ bookmarks.revisionConnections = 2
    /\ Len(bookmarks.entries) = 2
    /\ bookmarks.shows = 1
    /\ ~m_toShow
    /\ view.shown = "bookmarks"

\* C39: data that acceptsMimeData accepts is handled by tracksFromMimeData
\* (tracks are emitted or a parser is started), and data that is handled is
\* accepted.
C39_AcceptedIsHandled ==
    [][ \A i \in 1..Len(MimePayloads) :
          (last'.op = "tracksFromMimeData" /\ last'.sender = i)
          => LET handled == Started # << >> \/ tracksEmitted' # tracksEmitted
             IN  /\ AcceptsMimeData(MimePayloads[i], TRUE) => handled
                 /\ AcceptsMimeData(MimePayloads[i], FALSE) => handled
                 /\ handled => AcceptsMimeData(MimePayloads[i], FALSE) ]_vars

(***************************************************************************)
(* C40: TomahawkCache.                                                     *)
(***************************************************************************)
\* C40: getData returns the value of the latest putData for the identifier
\* and key when the maxAge stored with it is not earlier than the current
\* time, and an invalid value otherwise; it removes a stale entry, so that
\* later calls find none until the next putData; the entries of other keys
\* stay as they are.
C40_FreshOrInvalid ==
    [][ last'.op = "getData"
        => LET e == << got'.identifier, got'.key >>
               fresh == e \in DOMAIN latestPut /\ latestPut[e].maxAge >= now
           IN  /\ got'.data = (IF fresh THEN latestPut[e].data ELSE "")
               /\ ~fresh => e \notin DOMAIN cached_settings'
               /\ fresh => /\ e \in DOMAIN cached_settings'
                           /\ cached_settings'[e] = latestPut[e]
               /\ \A o \in CacheEntries \ { e } :
                      /\ o \in DOMAIN cached_settings' <=> o \in DOMAIN cached_settings
                      /\ o \in DOMAIN cached_settings
                         => cached_settings'[o] = cached_settings[o] ]_vars

\* getData found the entry of ( a, k ) stale and removed it; the stale
\* entry of ( a, l ) is still stored
C40_Witness ==
    /\ last.op = "getData"
    /\ got = [ identifier |-> "a", key |-> "k", data |-> "" ]
    /\ << "a", "k" >> \in DOMAIN latestPut
    /\ << "a", "k" >> \notin DOMAIN cached_settings
    /\ << "a", "l" >> \in DOMAIN cached_settings
    /\ cached_settings[<< "a", "l" >>].maxAge < now

====
